---- MODULE Spec2Model ----
(***************************************************************************)
(* A model of the SOCKS5 server of ui86/socks5 (package socks5):           *)
(* server.go (NewClassicServer, IsAllowed, Negotiate, GetRequest,          *)
(* ListenAndServe, handleUDPTask, DefaultHandle), server_side.go (the wire *)
(* decoders and encoders), connect.go and udp.go.                          *)
(*                                                                         *)
(* Bytes are the integers 0..255, strings and frames are sequences of      *)
(* bytes, an IP address is a number of IPBits bits.                        *)
(***************************************************************************)
EXTENDS Integers, Sequences, FiniteSets, TLC

(***************************************************************************)
(* Bounds of the model.                                                    *)
(***************************************************************************)
\* connections that are open at the same time (a closed one is replaced by
\* the next accepted connection)
MaxConns == 1
\* methods in a NegotiationRequest the clients send
MaxMethods == 2
\* length of the user names and passwords the clients send
MaxCred == 1
\* entries of the configured allow-list
MaxWhiteList == 2
\* width of an IP address in bits
IPBits == 2
\* capacity of the UDP work channel (5000 in NewClassicServer)
MaxQueue == 1
\* UDP workers (128 in ListenAndServe)
MaxWorkers == 1
\* the upstream reader goroutines that run at a time
MaxReaders == 2
\* bytes a client, and an origin, sends on a relayed connection
MaxData == 2
MaxPayload == 2

(***************************************************************************)
(* Protocol constants (socks5.go).                                         *)
(***************************************************************************)
Ver == 5
UserPassVer == 1
MethodNone == 0
MethodUsernamePassword == 2
MethodUnsupportAll == 255
UserPassStatusSuccess == 0
UserPassStatusFailure == 1
CmdConnect == 1
CmdBind == 2
CmdUDP == 3
ATYPIPv4 == 1
ATYPDomain == 3
ATYPIPv6 == 4
RepSuccess == 0
RepHostUnreachable == 4
RepCommandNotSupported == 7

\* the errors of the package, and the two kinds of I/O error
ErrNil == "nil"
ErrVersion == "ErrVersion"
ErrUserPassVersion == "ErrUserPassVersion"
ErrBadRequest == "ErrBadRequest"
ErrUnsupportCmd == "ErrUnsupportCmd"
ErrUserPassAuth == "ErrUserPassAuth"
ErrRead == "read error"
ErrWrite == "write error"
ErrDial == "dial error"

Range(s) == {s[i] : i \in 1..Len(s)}
SeqsUpTo(S, n) == UNION {[1..k -> S] : k \in 0..n}
Prefixes(s) == {SubSeq(s, 1, k) : k \in 0..Len(s)}
Zeros(n) == [i \in 1..n |-> 0]

(***************************************************************************)
(* Wire decoders (server_side.go).  The argument is what the client sends  *)
(* from the decoder's first read on, up to the end of the stream; n is the *)
(* number of bytes the decoder consumed; io.ReadFull on a stream that ends *)
(* early is ErrRead.                                                       *)
(***************************************************************************)
NewNegotiationRequestFrom(s) ==
    IF Len(s) < 2 THEN [err |-> ErrRead, n |-> Len(s), Methods |-> <<>>]
    ELSE IF s[1] # Ver THEN [err |-> ErrVersion, n |-> 2, Methods |-> <<>>]
    ELSE IF s[2] = 0 THEN [err |-> ErrBadRequest, n |-> 2, Methods |-> <<>>]
    ELSE IF Len(s) < 2 + s[2] THEN [err |-> ErrRead, n |-> Len(s), Methods |-> <<>>]
    ELSE [err |-> ErrNil, n |-> 2 + s[2], Methods |-> SubSeq(s, 3, 2 + s[2])]

NewUserPassNegotiationRequestFrom(s) ==
    LET bad(e, k) == [err |-> e, n |-> k, Uname |-> <<>>, Passwd |-> <<>>]
    IN  IF Len(s) < 2 THEN bad(ErrRead, Len(s))
        ELSE IF s[1] # UserPassVer THEN bad(ErrUserPassVersion, 2)
        ELSE IF s[2] = 0 THEN bad(ErrBadRequest, 2)
        ELSE LET ulen == s[2] IN
             IF Len(s) < 2 + ulen + 1 THEN bad(ErrRead, Len(s))
             ELSE LET plen == s[2 + ulen + 1] IN
                  IF plen = 0 THEN bad(ErrBadRequest, 3 + ulen)
                  ELSE IF Len(s) < 3 + ulen + plen THEN bad(ErrRead, Len(s))
                  ELSE [err |-> ErrNil, n |-> 3 + ulen + plen,
                        Uname |-> SubSeq(s, 3, 2 + ulen),
                        Passwd |-> SubSeq(s, 4 + ulen, 3 + ulen + plen)]

NoRequest == [Cmd |-> 0, Rsv |-> 0, Atyp |-> 0, DstAddr |-> <<>>, DstPort |-> <<>>]

\* NewRequestFrom looking at ATYP before VER
NewRequestFrom_AtypFirst(s) ==
    LET bad(e, k) == [err |-> e, n |-> k, r |-> NoRequest]
        rest(k, addr) ==
            IF Len(s) < k + 2 THEN bad(ErrRead, Len(s))
            ELSE IF s[1] # Ver THEN bad(ErrVersion, k + 2)
            ELSE [err |-> ErrNil, n |-> k + 2,
                  r |-> [Cmd |-> s[2], Rsv |-> s[3], Atyp |-> s[4],
                         DstAddr |-> addr, DstPort |-> SubSeq(s, k + 1, k + 2)]]
    IN  IF Len(s) < 4 THEN bad(ErrRead, Len(s))
        ELSE IF s[4] = ATYPIPv4 THEN
             IF Len(s) < 8 THEN bad(ErrRead, Len(s)) ELSE rest(8, SubSeq(s, 5, 8))
        ELSE IF s[4] = ATYPIPv6 THEN
             IF Len(s) < 20 THEN bad(ErrRead, Len(s)) ELSE rest(20, SubSeq(s, 5, 20))
        ELSE IF s[4] = ATYPDomain THEN
             IF Len(s) < 5 THEN bad(ErrRead, Len(s))
             ELSE IF s[5] = 0 THEN bad(ErrBadRequest, 5)
             ELSE IF Len(s) < 5 + s[5] THEN bad(ErrRead, Len(s))
             ELSE rest(5 + s[5], SubSeq(s, 5, 5 + s[5]))
        ELSE bad(ErrBadRequest, 4)

NewRequestFrom(s) ==
    LET bad(e, k) == [err |-> e, n |-> k, r |-> NoRequest]
        \* the port that follows an address ending at byte k
        rest(k, addr) ==
            IF Len(s) < k + 2 THEN bad(ErrRead, Len(s))
            ELSE [err |-> ErrNil, n |-> k + 2,
                  r |-> [Cmd |-> s[2], Rsv |-> s[3], Atyp |-> s[4],
                         DstAddr |-> addr, DstPort |-> SubSeq(s, k + 1, k + 2)]]
    IN  IF Len(s) < 4 THEN bad(ErrRead, Len(s))
        ELSE IF s[1] # Ver THEN bad(ErrVersion, 4)
        ELSE IF s[4] = ATYPIPv4 THEN
             IF Len(s) < 8 THEN bad(ErrRead, Len(s)) ELSE rest(8, SubSeq(s, 5, 8))
        ELSE IF s[4] = ATYPIPv6 THEN
             IF Len(s) < 20 THEN bad(ErrRead, Len(s)) ELSE rest(20, SubSeq(s, 5, 20))
        ELSE IF s[4] = ATYPDomain THEN
             IF Len(s) < 5 THEN bad(ErrRead, Len(s))
             ELSE IF s[5] = 0 THEN bad(ErrBadRequest, 5)
             ELSE IF Len(s) < 5 + s[5] THEN bad(ErrRead, Len(s))
             ELSE rest(5 + s[5], SubSeq(s, 5, 5 + s[5]))
        ELSE bad(ErrBadRequest, 4)

(***************************************************************************)
(* Wire encoders (server_side.go): the bytes handed to Write.              *)
(***************************************************************************)
NegotiationReplyBytes(method) == <<Ver, method>>
UserPassNegotiationReplyBytes(status) == <<UserPassVer, status>>

NewReply(rep, atyp, bndaddr, bndport) ==
    [Rep |-> rep, Atyp |-> atyp,
     BndAddr |-> IF atyp = ATYPDomain THEN <<Len(bndaddr)>> \o bndaddr ELSE bndaddr,
     BndPort |-> bndport]

ReplyBytes(p) == <<Ver, p.Rep, 0, p.Atyp>> \o p.BndAddr \o p.BndPort

\* the error reply always of the IPv4 form
ErrorReply_IPv4(rep, r) == NewReply(rep, ATYPIPv4, Zeros(4), Zeros(2))

\* the error reply carrying the ATYP of the request
ErrorReply_Mirror(rep, r) ==
    NewReply(rep, r.Atyp, IF r.Atyp = ATYPIPv6 THEN Zeros(16) ELSE Zeros(4), Zeros(2))

\* the error reply of GetRequest, Connect and UDP: zero address of the
\* request's family (IPv4 for a domain)
ErrorReply(rep, r) ==
    IF r.Atyp = ATYPIPv4 \/ r.Atyp = ATYPDomain
    THEN NewReply(rep, ATYPIPv4, Zeros(4), Zeros(2))
    ELSE NewReply(rep, ATYPIPv6, Zeros(16), Zeros(2))

(***************************************************************************)
(* The UDP datagram header (server_side.go).                               *)
(***************************************************************************)
NoDatagram == [Rsv |-> <<>>, Frag |-> 0, Atyp |-> 0, DstAddr |-> <<>>,
               DstPort |-> <<>>, Data |-> <<>>]

\* NewDatagramFromBytes with n < minl for its last check: a datagram with
\* no data decodes
NewDatagramFromBytes_EmptyData(bb) ==
    LET n == Len(bb)
        bad == [err |-> ErrBadRequest, d |-> NoDatagram]
        rest(minl, addr) ==
            IF n < minl + 2 THEN bad
            ELSE [err |-> ErrNil,
                  d |-> [Rsv |-> SubSeq(bb, 1, 2), Frag |-> bb[3], Atyp |-> bb[4],
                         DstAddr |-> addr, DstPort |-> SubSeq(bb, minl + 1, minl + 2),
                         Data |-> SubSeq(bb, minl + 3, n)]]
    IN  IF n < 4 THEN bad
        ELSE IF bb[4] = ATYPIPv4 THEN
             IF n < 8 THEN bad ELSE rest(8, SubSeq(bb, 5, 8))
        ELSE IF bb[4] = ATYPIPv6 THEN
             IF n < 20 THEN bad ELSE rest(20, SubSeq(bb, 5, 20))
        ELSE IF bb[4] = ATYPDomain THEN
             IF n < 5 THEN bad
             ELSE IF bb[5] = 0 THEN bad
             ELSE IF n < 5 + bb[5] THEN bad
             ELSE rest(5 + bb[5], SubSeq(bb, 5, 5 + bb[5]))
        ELSE bad

NewDatagramFromBytes(bb) ==
    LET n == Len(bb)
        bad == [err |-> ErrBadRequest, d |-> NoDatagram]
        \* the port and the data that follow an address ending at byte minl
        rest(minl, addr) ==
            IF n <= minl + 2 THEN bad
            ELSE [err |-> ErrNil,
                  d |-> [Rsv |-> SubSeq(bb, 1, 2), Frag |-> bb[3], Atyp |-> bb[4],
                         DstAddr |-> addr, DstPort |-> SubSeq(bb, minl + 1, minl + 2),
                         Data |-> SubSeq(bb, minl + 3, n)]]
    IN  IF n < 4 THEN bad
        ELSE IF bb[4] = ATYPIPv4 THEN
             IF n < 8 THEN bad ELSE rest(8, SubSeq(bb, 5, 8))
        ELSE IF bb[4] = ATYPIPv6 THEN
             IF n < 20 THEN bad ELSE rest(20, SubSeq(bb, 5, 20))
        ELSE IF bb[4] = ATYPDomain THEN
             IF n < 5 THEN bad
             ELSE IF bb[5] = 0 THEN bad
             ELSE IF n < 5 + bb[5] THEN bad
             ELSE rest(5 + bb[5], SubSeq(bb, 5, 5 + bb[5]))
        ELSE bad

\* NewDatagram leaving out the length of a domain name
NewDatagram_NoLength(atyp, dstaddr, dstport, data) ==
    [Rsv |-> <<0, 0>>, Frag |-> 0, Atyp |-> atyp,
     DstAddr |-> dstaddr, DstPort |-> dstport, Data |-> data]

NewDatagram(atyp, dstaddr, dstport, data) ==
    [Rsv |-> <<0, 0>>, Frag |-> 0, Atyp |-> atyp,
     DstAddr |-> IF atyp = ATYPDomain THEN <<Len(dstaddr) % 256>> \o dstaddr ELSE dstaddr,
     DstPort |-> dstport, Data |-> data]

\* no call of the codec
NoCodec ==
    [op |-> "none", in |-> <<>>, r |-> NoRequest, d |-> NoDatagram, err |-> ErrNil,
     n |-> 0, bytes |-> <<>>, d2 |-> NoDatagram, err2 |-> ErrNil]

DatagramBytes(d) == d.Rsv \o <<d.Frag, d.Atyp>> \o d.DstAddr \o d.DstPort \o d.Data

(***************************************************************************)
(* The allow-list (server.go).  An entry of the configured list is a       *)
(* string; all that NewClassicServer looks at is whether it is blank after *)
(* TrimSpace, parses as a CIDR (net.ParseCIDR), parses as an IP            *)
(* (net.ParseIP), or none of these.                                        *)
(***************************************************************************)
IPs == 0..(2 ^ IPBits - 1)
Entries ==
    [k : {"ip"}, ip : IPs, bits : {IPBits}] \cup
    [k : {"cidr"}, ip : IPs, bits : 0..IPBits] \cup
    [k : {"bad", "blank"}, ip : {0}, bits : {0}]

\* net.IP.Mask: the first bits bits of ip
MaskIP(ip, bits) == (ip \div (2 ^ (IPBits - bits))) * (2 ^ (IPBits - bits))
\* net.ParseCIDR: the network, with the host bits of the address cleared
ParseCIDR(e) ==
    IF e.k = "cidr" THEN [ok |-> TRUE, net |-> [ip |-> MaskIP(e.ip, e.bits), bits |-> e.bits]]
    ELSE [ok |-> FALSE, net |-> [ip |-> 0, bits |-> 0]]
\* net.ParseIP
ParseIP(e) == IF e.k = "ip" THEN [ok |-> TRUE, ip |-> e.ip] ELSE [ok |-> FALSE, ip |-> 0]
\* net.IPNet.Contains
Contains(net, ip) == MaskIP(ip, net.bits) = net.ip

\* the loop of NewClassicServer over whiteList[i..]
RECURSIVE ParseWhiteList(_, _, _, _)
ParseWhiteList(list, i, ips, cidrs) ==
    IF i > Len(list) THEN [AllowedIPs |-> ips, AllowedCIDRs |-> cidrs]
    ELSE IF list[i].k = "blank" THEN ParseWhiteList(list, i + 1, ips, cidrs)
    ELSE IF ParseCIDR(list[i]).ok
         THEN ParseWhiteList(list, i + 1, ips, Append(cidrs, ParseCIDR(list[i]).net))
    ELSE IF ParseIP(list[i]).ok
         THEN ParseWhiteList(list, i + 1, ips \cup {ParseIP(list[i]).ip}, cidrs)
    ELSE ParseWhiteList(list, i + 1, ips, cidrs)

\* IsAllowed taking a list with no exact address for no list at all
IsAllowed_NoExact(ips, cidrs, ip) ==
    IF ips = {} \/ Len(cidrs) = 0 THEN TRUE
    ELSE IF ip \in ips THEN TRUE
    ELSE \E i \in 1..Len(cidrs) : Contains(cidrs[i], ip)

\* IsAllowed without the case of no list
IsAllowed_NoEmpty(ips, cidrs, ip) ==
    IF ip \in ips THEN TRUE
    ELSE \E i \in 1..Len(cidrs) : Contains(cidrs[i], ip)

IsAllowed(ips, cidrs, ip) ==
    IF ips = {} /\ Len(cidrs) = 0 THEN TRUE
    ELSE IF ip \in ips THEN TRUE
    ELSE \E i \in 1..Len(cidrs) : Contains(cidrs[i], ip)

\* NewClassicServer asking for a password as soon as one of the two is set
ServerMethod_Either(username, password) ==
    IF username # <<>> \/ password # <<>> THEN MethodUsernamePassword ELSE MethodNone

\* the required method NewClassicServer chooses
ServerMethod(username, password) ==
    IF username # <<>> /\ password # <<>> THEN MethodUsernamePassword ELSE MethodNone

\* SupportedCommands of NewClassicServer
SupportedCommands == {CmdConnect, CmdUDP}

(***************************************************************************)
(* Negotiate and GetRequest (server.go): the decisions they take.          *)
(***************************************************************************)
\* Negotiate looking at the first method only
GotMethod_First(methods, m) == Len(methods) > 0 /\ methods[1] = m

\* the loop of Negotiate over rq.Methods
GotMethod(methods, m) == \E i \in 1..Len(methods) : methods[i] = m

\* Negotiate failing the authentication only when both are wrong
BadUserPass_Both(uname, passwd, username, password) ==
    uname # username /\ passwd # password

\* Negotiate failing the authentication on the user name alone
BadUserPass_NameOnly(uname, passwd, username, password) ==
    uname # username

\* the comparison of Negotiate that fails the authentication
BadUserPass(uname, passwd, username, password) ==
    uname # username \/ passwd # password

Supported(cmd) == cmd \in SupportedCommands

(***************************************************************************)
(* What the clients send.                                                  *)
(***************************************************************************)
CredBytes == {97, 98}
Creds == SeqsUpTo(CredBytes, MaxCred)
\* the configured user name and password: empty or "a"
ConfigCreds == {<<>>, <<97>>}

NegFrames ==
    UNION {Prefixes(<<v, n>> \o ms) :
           v \in {4, Ver}, n \in 0..MaxMethods,
           ms \in SeqsUpTo({MethodNone, 1, MethodUsernamePassword}, MaxMethods)}

UserPassFrames ==
    UNION {Prefixes(<<v, Len(u)>> \o u \o <<Len(p)>> \o p) :
           v \in {UserPassVer, Ver}, u \in Creds, p \in Creds}

IPv4Bytes(ip) == <<10, 0, 0, ip>>
DstAddrs(atyp) ==
    IF atyp = ATYPIPv4 THEN {IPv4Bytes(1)}
    ELSE IF atyp = ATYPIPv6 THEN {Zeros(15) \o <<1>>}
    ELSE IF atyp = ATYPDomain THEN {<<0>>, <<1, 97>>}
    ELSE {<<>>}
RequestFramesOf(atyp) ==
    UNION {Prefixes(<<v, cmd, 0, atyp>> \o a \o p) :
           v \in {4, Ver}, cmd \in {CmdConnect, CmdBind, CmdUDP},
           a \in DstAddrs(atyp), p \in {<<0, 0>>, <<0, 80>>}}
RequestFrames == UNION {RequestFramesOf(atyp) : atyp \in {ATYPIPv4, 2, ATYPDomain, ATYPIPv6}}

(***************************************************************************)
(* The state.                                                              *)
(***************************************************************************)
VARIABLES
    whiteList,      \* the whiteList argument of NewClassicServer
    UserName,       \* Server.UserName
    Password,       \* Server.Password
    Method,         \* Server.Method
    AllowedIPs,     \* Server.AllowedIPs
    AllowedCIDRs,   \* Server.AllowedCIDRs
    TCPTimeout,     \* Server.TCPTimeout
    alive,          \* the server process is running (no goroutine has panicked)
    conns,          \* the accepted TCP connections and their goroutines
    relay,          \* the CONNECT relays of the connections
    AssociatedUDP,  \* Server.AssociatedUDP: client UDP endpoint -> channel
    closedCh,       \* the association channels that are closed
    LimitUDP,       \* Server.LimitUDP
    UDPTimeout,     \* Server.UDPTimeout
    udpWorkCh,      \* Server.udpWorkCh: the queued UDP tasks
    workers,        \* the UDP workers
    UDPExchanges,   \* Server.UDPExchanges: flow key -> UDPExchange
    UDPSrc,         \* Server.UDPSrc: flow key -> local address
    rcOpen,         \* the outbound UDP sockets that are open
    readers,        \* the upstream reader goroutines
    udpBufPool,     \* udpBufPool: the number of its buffers that are in use
    srv,            \* ListenAndServe, its two loops, and Shutdown
    codec           \* a call of the wire codec on its own, and its results

config == <<whiteList, UserName, Password, Method, AllowedIPs, AllowedCIDRs,
            LimitUDP, UDPTimeout, TCPTimeout>>
udp == <<udpWorkCh, workers, UDPExchanges, UDPSrc, rcOpen, readers, udpBufPool>>
vars == <<config, codec, srv, alive, conns, relay, AssociatedUDP, closedCh, udp>>

Conns == 1..MaxConns
Workers == 1..MaxWorkers

\* A connection slot.  pc is where its goroutine stands; ip is the remote IP;
\* out is the frames the goroutine has handed to Write, in order; r is the
\* Request GetRequest returned; err is what ended the goroutine.  The other
\* fields record what has happened on the connection: rd the frames the
\* server has read (or tried to), offered whether the NegotiationRequest
\* listed the server's method, creds whether the UserPassRequest carried the
\* configured credentials, handled whether TCPHandle was invoked.  rc is the
\* outbound socket of a CONNECT; caddr and ch are the client UDP endpoint
\* and the channel of a UDP association.  req is the CMD and ATYP of the
\* Request that was decoded (NoReq if none was), dial whether DialTCP
\* succeeded ("ok", "fail", or "?" if it was not called), la the local
\* address of the outbound socket.
NoReq == [Cmd |-> -1, Atyp |-> -1]
NoLocalAddr == [atyp |-> 0, addr |-> <<>>, port |-> <<>>]
FreeConn ==
    [pc |-> "free", ip |-> 0, out |-> <<>>, rd |-> {}, offered |-> "?",
     creds |-> "?", r |-> NoRequest, rc |-> "none", caddr |-> <<>>, ch |-> 0,
     handled |-> FALSE, wfail |-> FALSE, err |-> ErrNil,
     req |-> NoReq, dial |-> "?", la |-> NoLocalAddr]

\* the goroutine returns (the deferred c.Close() runs)
Closed(cn, e) == [cn EXCEPT !.pc = "closed", !.err = e, !.r = NoRequest]
\* the goroutine returns the error of a Write that failed
WriteFailed(cn) == [Closed(cn, ErrWrite) EXCEPT !.wfail = TRUE]

\* the address NewClassicServer resolves for the UDP-associate replies
\* (0.0.0.0 and the listening port, 1080)
ServerAddr == [atyp |-> ATYPIPv4, addr |-> Zeros(4), port |-> <<4, 56>>]

\* the remote port of the connection in slot c
RemotePort(c) == <<195, c>>
\* a UDP endpoint, as the key of AssociatedUDP (net.Addr.String())
Endpoint(addr, port) == <<addr, port>>

\* A UDP worker.  pc is "idle" (receiving from udpWorkCh) or "dial" (in
\* UDPHandle, about to dial the origin of the datagram d from addr, with the
\* association channel ch), and after the dial "dialed" (about to store the
\* local address local of the socket rc it dialed with laddr) and "send"
\* (about to send on rc); last is what became of the task it handled last.
NoTask == [ip |-> 0, port |-> <<>>, pkt |-> <<>>]
IdleWorker == [pc |-> "idle", addr |-> <<>>, d |-> NoDatagram, ch |-> 0,
               rc |-> 0, local |-> <<>>, laddr |-> <<>>,
               last |-> [task |-> NoTask, outcome |-> "none"]]

\* The relay of a connection.  c2o is the copy from the client to the origin
\* (directTransfer(rc, c)), o2c the copy from the origin to the client (go
\* directTransfer(c, rc)): "none" (not started), "read" (in Read of its
\* source) or "done"; whyC and whyO are what ended them.  sentC and sentO are
\* the bytes the client and the origin have sent, endC and endO whether and
\* how their streams have ended ("no", "eof", "error"); rdC and rdO count the
\* bytes the copies have read; toO and toC are the bytes written to the
\* origin and to the client.  dlC and dlO are the read deadlines of the two
\* sockets: "none" (never set), "fresh" (set for the Read under way) or
\* "stale" (set for an earlier Read).
NoRelay ==
    [c2o |-> "none", o2c |-> "none", whyC |-> "", whyO |-> "",
     sentC |-> <<>>, sentO |-> <<>>, endC |-> "no", endO |-> "no",
     rdC |-> 0, rdO |-> 0, toO |-> <<>>, toC |-> <<>>,
     dlC |-> "none", dlO |-> "none"]

\* ListenAndServe and Shutdown.  phase is where ListenAndServe stands: "new"
\* (not called), "serving" (in RunnerGroup.Wait) or "returned", and err is
\* the error it returned; l is the TCP listener and UDPConn the UDP socket:
\* "none", "open" or "closed"; chClosed says whether udpWorkCh is closed;
\* tcp is the accept loop and udp the ingress loop: "idle", "running",
\* "returned" or "panic"; first is the loop that returned first ("none",
\* "tcp" or "udp"); stopTCP and stopUDP say how far the Stop of the two
\* runners is: "no", "closing" (the channel is closed, the socket not yet)
\* or "done"; shutdown is where Shutdown stands: "no", "called" or "returned".
\* dialed records, for each flow key, the local address of the origin socket
\* that DialUDP returned last for it in UDPHandleDial.
NewSrv ==
    [phase |-> "new", err |-> ErrNil, l |-> "none", UDPConn |-> "none",
     chClosed |-> FALSE, tcp |-> "idle", udp |-> "idle", first |-> "none",
     stopTCP |-> "no", stopUDP |-> "no", shutdown |-> "no", dialed |-> {}]
\* ListenAndServe has bound the two sockets, started the workers and the two
\* loops, and waits
Serving ==
    [NewSrv EXCEPT !.phase = "serving", !.l = "open", !.UDPConn = "open",
                   !.tcp = "running", !.udp = "running"]

\* NewClassicServer, for a process that has the connection slots cs and
\* starts the workers ws
NewServerWith(list, username, password, cs, ws) ==
    /\ whiteList = list
    /\ UserName = username
    /\ Password = password
    /\ Method = ServerMethod(username, password)
    /\ AllowedIPs = ParseWhiteList(list, 1, {}, <<>>).AllowedIPs
    /\ AllowedCIDRs = ParseWhiteList(list, 1, {}, <<>>).AllowedCIDRs
    /\ alive = TRUE
    /\ codec = NoCodec
    /\ conns = [c \in cs |-> FreeConn]
    /\ relay = [c \in cs |-> NoRelay]
    /\ AssociatedUDP = {}
    /\ closedCh = {}
    /\ udpWorkCh = <<>>
    /\ workers = [w \in ws |-> IdleWorker]
    /\ UDPExchanges = {}
    /\ UDPSrc = {}
    /\ rcOpen = {}
    /\ readers = {}
    /\ udpBufPool = 0
NewServer(list, username, password) ==
    NewServerWith(list, username, password, Conns, Workers)

\* the allow-lists of the servers of Spec: none, and the lower half of the
\* addresses
SomeWhiteLists == {<<>>, <<[k |-> "cidr", ip |-> 0, bits |-> 1]>>}
\* the remote addresses of the clients of Spec
SomeIPs == {1, 2 ^ IPBits - 1}

Init ==
    /\ \E list \in SomeWhiteLists, username \in ConfigCreds, password \in ConfigCreds :
           NewServer(list, username, password)
    /\ LimitUDP = FALSE
    /\ UDPTimeout = 60
    /\ TCPTimeout = 0
    /\ srv = Serving

(***************************************************************************)
(* ListenAndServe: the accept loop and the goroutine of a connection.      *)
(***************************************************************************)
\* l.AcceptTCP() returns a connection and its goroutine starts
AcceptTCPOf(c, ips) ==
    /\ alive
    /\ srv.tcp = "running"
    /\ srv.l = "open"
    /\ conns[c].pc \in {"free", "closed"}
    /\ \E ip \in ips :
           conns' = [conns EXCEPT ![c] = [FreeConn EXCEPT !.pc = "accepted", !.ip = ip]]
    /\ relay' = [relay EXCEPT ![c] = NoRelay]
    /\ UNCHANGED <<config, codec, srv, udp, alive, AssociatedUDP, closedCh>>
\* the clients connect from any of SomeIPs
AcceptTCP(c) == AcceptTCPOf(c, SomeIPs)

\* the allow-list check at the head of the goroutine
Admit(c) ==
    /\ alive
    /\ conns[c].pc = "accepted"
    /\ conns' = [conns EXCEPT ![c] =
                    IF IsAllowed(AllowedIPs, AllowedCIDRs, conns[c].ip)
                    THEN [@ EXCEPT !.pc = "negotiate"]
                    ELSE Closed(@, "denied")]
    /\ UNCHANGED <<config, codec, srv, relay, udp, alive, AssociatedUDP, closedCh>>

\* Negotiate, up to the negotiation reply.  w1 and w2 say whether the write
\* of the NO_ACCEPTABLE reply and of the method reply succeed.
\* The client sends one of frames.
NegotiateMethodsOf(c, frames) ==
    /\ alive
    /\ conns[c].pc = "negotiate"
    /\ \E bs \in frames, w1, w2 \in BOOLEAN :
           LET rq == NewNegotiationRequestFrom(bs)
               got == GotMethod(rq.Methods, Method)
               cn == [conns[c] EXCEPT
                         !.rd = @ \cup {"NegotiationRequest"},
                         !.offered = IF rq.err # ErrNil THEN "?"
                                     ELSE IF Method \in Range(rq.Methods) THEN "yes"
                                     ELSE "no"]
               o1 == IF got THEN cn.out
                     ELSE Append(cn.out, NegotiationReplyBytes(MethodUnsupportAll))
               o2 == Append(o1, NegotiationReplyBytes(Method))
           IN  /\ rq.n = Len(bs)
               /\ (rq.err # ErrNil \/ got) => w1
               /\ (rq.err # ErrNil \/ ~w1) => w2
               /\ conns' = [conns EXCEPT ![c] =
                      IF rq.err # ErrNil THEN Closed(cn, rq.err)
                      ELSE IF ~w1 THEN WriteFailed([cn EXCEPT !.out = o1])
                      ELSE IF ~w2 THEN WriteFailed([cn EXCEPT !.out = o2])
                      ELSE [cn EXCEPT !.out = o2,
                                      !.pc = IF Method = MethodUsernamePassword
                                             THEN "userpass" ELSE "request"]]
    /\ UNCHANGED <<config, codec, srv, relay, udp, alive, AssociatedUDP, closedCh>>
\* the client sends any of NegFrames
NegotiateMethods(c) == NegotiateMethodsOf(c, NegFrames)

\* Negotiate, the username/password sub-negotiation
NegotiateUserPass(c) ==
    /\ alive
    /\ conns[c].pc = "userpass"
    /\ \E bs \in UserPassFrames, w \in BOOLEAN :
           LET urq == NewUserPassNegotiationRequestFrom(bs)
               cn == [conns[c] EXCEPT
                         !.rd = @ \cup {"UserPassRequest"},
                         !.creds = IF urq.err # ErrNil THEN "?"
                                   ELSE IF urq.Uname = UserName /\ urq.Passwd = Password
                                        THEN "match" ELSE "mismatch"]
               fail == Append(cn.out, UserPassNegotiationReplyBytes(UserPassStatusFailure))
               succ == Append(cn.out, UserPassNegotiationReplyBytes(UserPassStatusSuccess))
           IN  /\ urq.n = Len(bs)
               /\ urq.err # ErrNil => w
               /\ conns' = [conns EXCEPT ![c] =
                      IF urq.err # ErrNil THEN Closed(cn, urq.err)
                      ELSE IF BadUserPass(urq.Uname, urq.Passwd, UserName, Password)
                           THEN IF w THEN Closed([cn EXCEPT !.out = fail], ErrUserPassAuth)
                                ELSE WriteFailed([cn EXCEPT !.out = fail])
                      ELSE IF ~w THEN WriteFailed([cn EXCEPT !.out = succ])
                      ELSE [cn EXCEPT !.out = succ, !.pc = "request"]]
    /\ UNCHANGED <<config, codec, srv, relay, udp, alive, AssociatedUDP, closedCh>>

\* GetRequest, and the call of Handle.TCPHandle with the request it returns
\* The client sends one of frames.
GetRequestOf(c, frames) ==
    /\ alive
    /\ conns[c].pc = "request"
    /\ \E bs \in frames, w \in BOOLEAN :
           LET rr == NewRequestFrom(bs)
               cn == [conns[c] EXCEPT
                         !.rd = @ \cup {"Request"},
                         !.req = IF rr.err # ErrNil THEN NoReq
                                 ELSE [Cmd |-> rr.r.Cmd, Atyp |-> rr.r.Atyp]]
               p == ErrorReply(RepCommandNotSupported, rr.r)
           IN  /\ rr.n = Len(bs)
               /\ (rr.err # ErrNil \/ Supported(rr.r.Cmd)) => w
               /\ conns' = [conns EXCEPT ![c] =
                      IF rr.err # ErrNil THEN Closed(cn, rr.err)
                      ELSE IF ~Supported(rr.r.Cmd)
                           THEN IF w THEN Closed([cn EXCEPT !.out = Append(@, ReplyBytes(p))],
                                                 ErrUnsupportCmd)
                                ELSE WriteFailed([cn EXCEPT !.out = Append(@, ReplyBytes(p))])
                      ELSE [cn EXCEPT !.r = rr.r, !.handled = TRUE, !.pc = "handle"]]
    /\ UNCHANGED <<config, codec, srv, relay, udp, alive, AssociatedUDP, closedCh>>
\* the client sends any of RequestFrames
GetRequest(c) == GetRequestOf(c, RequestFrames)

(***************************************************************************)
(* DefaultHandle.TCPHandle (server.go), Request.Connect (connect.go) and   *)
(* Request.UDP (udp.go).                                                   *)
(***************************************************************************)
\* the local address of the outbound socket of slot c, of either family
LocalAddrs(c) ==
    {[atyp |-> ATYPIPv4, addr |-> IPv4Bytes(0), port |-> <<200, c>>],
     [atyp |-> ATYPIPv6, addr |-> Zeros(15) \o <<2>>, port |-> <<200, c>>]}

\* Request.Connect answering a successful dial with a zero bound address
RequestConnect_ZeroBnd(r, dial, la, w) ==
    IF ~dial
    THEN [rc |-> "none", err |-> IF w THEN ErrDial ELSE ErrWrite,
          wrote |-> ReplyBytes(ErrorReply(RepHostUnreachable, r))]
    ELSE [rc |-> IF w THEN "open" ELSE "closed", err |-> IF w THEN ErrNil ELSE ErrWrite,
          wrote |-> ReplyBytes(ErrorReply(RepSuccess, r))]

\* Request.Connect: dial says whether DialTCP succeeds, la is the local
\* address of the socket it returns, w whether the write of the reply succeeds
RequestConnect(r, dial, la, w) ==
    IF ~dial
    THEN [rc |-> "none", err |-> IF w THEN ErrDial ELSE ErrWrite,
          wrote |-> ReplyBytes(ErrorReply(RepHostUnreachable, r))]
    ELSE [rc |-> IF w THEN "open" ELSE "closed", err |-> IF w THEN ErrNil ELSE ErrWrite,
          wrote |-> ReplyBytes(NewReply(RepSuccess, la.atyp, la.addr, la.port))]

\* idleTimeoutConn.Read arming the deadline for the first Read only
ArmDeadline_Once(timeout, dl) ==
    IF dl = "none" THEN (IF timeout > 0 THEN "fresh" ELSE "none") ELSE "stale"

\* idleTimeoutConn.Read, before the Read of the socket: the read deadline of
\* a socket whose deadline was dl
ArmDeadline(timeout, dl) ==
    IF timeout > 0 THEN "fresh" ELSE IF dl = "none" THEN "none" ELSE "stale"

\* the two directTransfer of TCPHandle start: each enters its first Read
StartRelay(timeout) ==
    [NoRelay EXCEPT !.c2o = "read", !.o2c = "read",
                    !.dlC = ArmDeadline(timeout, "none"),
                    !.dlO = ArmDeadline(timeout, "none")]

\* TCPHandle for CONNECT, up to the start of the relay
Connect(c) ==
    /\ alive
    /\ conns[c].pc = "handle"
    /\ conns[c].r.Cmd = CmdConnect
    /\ \E dial, w \in BOOLEAN, la \in LocalAddrs(c) :
           LET res == RequestConnect(conns[c].r, dial, la, w)
               cn == [conns[c] EXCEPT !.out = Append(@, res.wrote), !.rc = res.rc,
                                      !.dial = IF dial THEN "ok" ELSE "fail",
                                      !.la = IF dial THEN la ELSE NoLocalAddr]
           IN  /\ ~dial => la.atyp = ATYPIPv4
               /\ conns' = [conns EXCEPT ![c] =
                      IF ~w THEN WriteFailed(cn)
                      ELSE IF res.err # ErrNil THEN Closed(cn, res.err)
                      ELSE [cn EXCEPT !.pc = "relay"]]
               /\ relay' = [relay EXCEPT ![c] =
                      IF dial /\ w THEN StartRelay(TCPTimeout) ELSE @]
    /\ UNCHANGED <<config, codec, srv, udp, alive, AssociatedUDP, closedCh>>

\* the bytes of sent that a Read returning n bytes gets after rd bytes were
\* read, taken from the start of the buffer
Chunk_FromStart(sent, rd, n) == SubSeq(sent, 1, n)

\* io.CopyBuffer: the bytes of sent that a Read returning n bytes gets after
\* rd bytes were read
Chunk(sent, rd, n) == SubSeq(sent, rd + 1, rd + n)

\* the bytes the client, and the origin, of connection c send
ClientByte(c, i) == 16 * c + i
OriginByte(c, i) == 128 + 16 * c + i

\* the client of a relayed connection sends its next byte
ClientSend(c) ==
    /\ alive
    /\ conns[c].pc = "relay"
    /\ relay[c].endC = "no"
    /\ Len(relay[c].sentC) < MaxData
    /\ relay' = [relay EXCEPT ![c].sentC = Append(@, ClientByte(c, Len(@) + 1))]
    /\ UNCHANGED <<config, codec, srv, conns, udp, alive, AssociatedUDP, closedCh>>

\* the origin of a relayed connection sends its next byte
OriginSend(c) ==
    /\ alive
    /\ conns[c].pc = "relay"
    /\ relay[c].endO = "no"
    /\ Len(relay[c].sentO) < MaxData
    /\ relay' = [relay EXCEPT ![c].sentO = Append(@, OriginByte(c, Len(@) + 1))]
    /\ UNCHANGED <<config, codec, srv, conns, udp, alive, AssociatedUDP, closedCh>>

\* the client ends its stream: it closes its side (end-of-stream) or the
\* connection breaks
ClientEnd(c) ==
    /\ alive
    /\ conns[c].pc = "relay"
    /\ relay[c].endC = "no"
    /\ \E e \in {"eof", "error"} : relay' = [relay EXCEPT ![c].endC = e]
    /\ UNCHANGED <<config, codec, srv, conns, udp, alive, AssociatedUDP, closedCh>>

\* the origin ends its stream
OriginEnd(c) ==
    /\ alive
    /\ conns[c].pc = "relay"
    /\ relay[c].endO = "no"
    /\ \E e \in {"eof", "error"} : relay' = [relay EXCEPT ![c].endO = e]
    /\ UNCHANGED <<config, codec, srv, conns, udp, alive, AssociatedUDP, closedCh>>

\* directTransfer(rc, c): a Read of the client socket returns n bytes, which
\* are written to the origin; the copy ends if the Write fails (~w), and
\* enters the next Read if not
CopyC2O(c) ==
    /\ alive
    /\ conns[c].pc = "relay"
    /\ relay[c].c2o = "read"
    /\ \E n \in 1..MaxData, w \in BOOLEAN :
           /\ relay[c].rdC + n <= Len(relay[c].sentC)
           /\ relay' = [relay EXCEPT ![c] =
                  IF w THEN [@ EXCEPT !.rdC = @ + n,
                                      !.toO = @ \o Chunk(relay[c].sentC, relay[c].rdC, n),
                                      !.dlC = ArmDeadline(TCPTimeout, @)]
                  ELSE [@ EXCEPT !.rdC = @ + n, !.c2o = "done", !.whyC = "write"]]
    /\ UNCHANGED <<config, codec, srv, conns, udp, alive, AssociatedUDP, closedCh>>

\* go directTransfer(c, rc): a Read of the origin socket returns n bytes,
\* which are written to the client
CopyO2C(c) ==
    /\ alive
    /\ conns[c].pc = "relay"
    /\ relay[c].o2c = "read"
    /\ \E n \in 1..MaxData, w \in BOOLEAN :
           /\ relay[c].rdO + n <= Len(relay[c].sentO)
           /\ relay' = [relay EXCEPT ![c] =
                  IF w THEN [@ EXCEPT !.rdO = @ + n,
                                      !.toC = @ \o Chunk(relay[c].sentO, relay[c].rdO, n),
                                      !.dlO = ArmDeadline(TCPTimeout, @)]
                  ELSE [@ EXCEPT !.rdO = @ + n, !.o2c = "done", !.whyO = "write"]]
    /\ UNCHANGED <<config, codec, srv, conns, udp, alive, AssociatedUDP, closedCh>>

\* directTransfer(rc, c): the Read of the client socket returns end-of-stream
\* (after the bytes sent before it) or an error, and the copy ends
EndC2O(c) ==
    /\ alive
    /\ conns[c].pc = "relay"
    /\ relay[c].c2o = "read"
    /\ \/ relay[c].endC = "error"
       \/ relay[c].endC = "eof" /\ relay[c].rdC = Len(relay[c].sentC)
    /\ relay' = [relay EXCEPT ![c].c2o = "done", ![c].whyC = relay[c].endC]
    /\ UNCHANGED <<config, codec, srv, conns, udp, alive, AssociatedUDP, closedCh>>

\* go directTransfer(c, rc): the Read of the origin socket returns
\* end-of-stream or an error, and the copy ends
EndO2C(c) ==
    /\ alive
    /\ conns[c].pc = "relay"
    /\ relay[c].o2c = "read"
    /\ \/ relay[c].endO = "error"
       \/ relay[c].endO = "eof" /\ relay[c].rdO = Len(relay[c].sentO)
    /\ relay' = [relay EXCEPT ![c].o2c = "done", ![c].whyO = relay[c].endO]
    /\ UNCHANGED <<config, codec, srv, conns, udp, alive, AssociatedUDP, closedCh>>

\* directTransfer(rc, c): the read deadline of the client socket passes (with
\* no byte to read, unless the deadline is one of an earlier Read)
TimeoutC2O(c) ==
    /\ alive
    /\ conns[c].pc = "relay"
    /\ relay[c].c2o = "read"
    /\ relay[c].dlC # "none"
    /\ relay[c].dlC = "stale" \/ relay[c].rdC = Len(relay[c].sentC)
    /\ relay' = [relay EXCEPT ![c].c2o = "done", ![c].whyC = "timeout"]
    /\ UNCHANGED <<config, codec, srv, conns, udp, alive, AssociatedUDP, closedCh>>

\* go directTransfer(c, rc): the read deadline of the origin socket passes
TimeoutO2C(c) ==
    /\ alive
    /\ conns[c].pc = "relay"
    /\ relay[c].o2c = "read"
    /\ relay[c].dlO # "none"
    /\ relay[c].dlO = "stale" \/ relay[c].rdO = Len(relay[c].sentO)
    /\ relay' = [relay EXCEPT ![c].o2c = "done", ![c].whyO = "timeout"]
    /\ UNCHANGED <<config, codec, srv, conns, udp, alive, AssociatedUDP, closedCh>>

\* directTransfer(rc, c) has returned: TCPHandle returns nil, the deferred
\* rc.Close() and c.Close() run
RelayEnd(c) ==
    /\ alive
    /\ conns[c].pc = "relay"
    /\ relay[c].c2o = "done"
    /\ conns' = [conns EXCEPT ![c] = Closed([@ EXCEPT !.rc = "closed"], ErrNil)]
    /\ UNCHANGED <<config, codec, srv, relay, udp, alive, AssociatedUDP, closedCh>>

\* go directTransfer(c, rc) after TCPHandle has returned: its Read of the
\* closed origin socket (or its Write to the closed client socket) fails
AbortO2C(c) ==
    /\ alive
    /\ conns[c].pc = "closed"
    /\ relay[c].o2c = "read"
    /\ relay' = [relay EXCEPT ![c].o2c = "done", ![c].whyO = "closed"]
    /\ UNCHANGED <<config, codec, srv, conns, udp, alive, AssociatedUDP, closedCh>>

\* no net.Addr (a nil interface)
NilAddr == <<>>

\* Request.UDP taking the remote address of the connection whatever DST.PORT
RequestUDP_AlwaysRemote(r, remote, resolves, w) ==
    [clientAddr |-> IF w THEN remote ELSE NilAddr,
     err |-> IF w THEN ErrNil ELSE ErrWrite,
     wrote |-> ReplyBytes(NewReply(RepSuccess, ServerAddr.atyp,
                                   ServerAddr.addr, ServerAddr.port))]

\* Request.UDP on a connection from remote: resolves says whether
\* net.ResolveUDPAddr resolves a domain name, w whether the write of the
\* reply succeeds.  ParseAddress of the server's own address does not fail.
RequestUDP(r, remote, resolves, w) ==
    LET fromConn == r.DstPort = <<0, 0>>
        resolved == fromConn \/ r.Atyp # ATYPDomain \/ resolves
        clientAddr ==
            IF fromConn THEN remote
            ELSE IF r.Atyp = ATYPDomain THEN Endpoint(IPv4Bytes(1), r.DstPort)
            ELSE Endpoint(r.DstAddr, r.DstPort)
    IN  IF ~resolved
        THEN \* err is assigned the result of the write, and returned
             [clientAddr |-> NilAddr, err |-> IF w THEN ErrNil ELSE ErrWrite,
              wrote |-> ReplyBytes(ErrorReply(RepHostUnreachable, r))]
        ELSE [clientAddr |-> IF w THEN clientAddr ELSE NilAddr,
              err |-> IF w THEN ErrNil ELSE ErrWrite,
              wrote |-> ReplyBytes(NewReply(RepSuccess, ServerAddr.atyp,
                                            ServerAddr.addr, ServerAddr.port))]

\* the channels that the workers ws and the readers rs have got from
\* AssociatedUDP (0 is the nil channel)
HeldCh(ws, rs) == ({ws[w].ch : w \in DOMAIN ws} \cup {r.ch : r \in rs}) \ {0}
\* the channels that are referred to
ChInUse == {conns[c].ch : c \in DOMAIN conns} \cup HeldCh(workers, readers)
\* make(chan byte): a channel nothing refers to
NewCh == CHOOSE i \in 1..(Cardinality(ChInUse) + 1) :
             i \notin ChInUse /\ \A j \in 1..(i - 1) : j \in ChInUse

\* a Delete that leaves the table as it is
Delete_Nothing(m, key) == m
\* sync.Map.Store and sync.Map.Delete on AssociatedUDP
Store(m, key, ch) == {e \in m : e.key # key} \cup {[key |-> key, ch |-> ch]}
Delete(m, key) == {e \in m : e.key # key}

\* TCPHandle for UDP ASSOCIATE, up to io.Copy.  With a nil caddr and a nil
\* error caddr.String() panics, and the panic of a goroutine ends the process.
UDP(c) ==
    /\ alive
    /\ conns[c].pc = "handle"
    /\ conns[c].r.Cmd = CmdUDP
    /\ \E resolves, w \in BOOLEAN :
           LET remote == Endpoint(IPv4Bytes(conns[c].ip), RemotePort(c))
               res == RequestUDP(conns[c].r, remote, resolves, w)
               cn == [conns[c] EXCEPT !.out = Append(@, res.wrote)]
           IN  IF res.err # ErrNil
               THEN /\ conns' = [conns EXCEPT ![c] = WriteFailed(cn)]
                    /\ UNCHANGED <<alive, AssociatedUDP>>
               ELSE IF res.clientAddr = NilAddr
               THEN /\ conns' = [conns EXCEPT ![c] = [cn EXCEPT !.pc = "panic"]]
                    /\ alive' = FALSE
                    /\ UNCHANGED AssociatedUDP
               ELSE /\ conns' = [conns EXCEPT ![c] =
                           [cn EXCEPT !.pc = "assoc", !.caddr = res.clientAddr,
                                      !.ch = NewCh]]
                    /\ AssociatedUDP' = Store(AssociatedUDP, res.clientAddr, NewCh)
                    /\ UNCHANGED alive
    /\ UNCHANGED <<config, codec, srv, relay, udp, closedCh>>

\* io.Copy returns (the control connection has ended): the deferred Delete
\* and close(ch) run, TCPHandle returns nil
AssocEnd(c) ==
    /\ alive
    /\ conns[c].pc = "assoc"
    /\ AssociatedUDP' = Delete(AssociatedUDP, conns[c].caddr)
    /\ conns' = [conns EXCEPT ![c] = Closed([@ EXCEPT !.ch = 0], ErrNil)]
    /\ closedCh' = (closedCh \cup {conns[c].ch}) \cap HeldCh(workers, readers)
    /\ UNCHANGED <<config, codec, srv, relay, udp, alive>>

TCPNext ==
    \E c \in Conns :
        \/ AcceptTCP(c)
        \/ Admit(c)
        \/ NegotiateMethods(c)
        \/ NegotiateUserPass(c)
        \/ GetRequest(c)
        \/ Connect(c)
        \/ ClientEnd(c)
        \/ EndC2O(c)
        \/ RelayEnd(c)
        \/ AbortO2C(c)
        \/ UDP(c)
        \/ AssocEnd(c)

\* the server with clients that send no payload on a relayed connection,
\* origins that send nothing, and no UDP traffic
Spec == Init /\ [][TCPNext]_vars

(***************************************************************************)
(* The server with no credentials and no allow-list, with TCPTimeout 0 or  *)
(* IdleTimeout, with clients and origins that send up to MaxData bytes on  *)
(* a relayed connection.  The steps of the server are taken sooner or      *)
(* later; the clients and the origins may stay silent.                     *)
(***************************************************************************)
IdleTimeout == 30

InitRelay ==
    /\ NewServer(<<>>, <<>>, <<>>)
    /\ LimitUDP = FALSE
    /\ UDPTimeout = 60
    /\ TCPTimeout \in {0, IdleTimeout}
    /\ srv = Serving

\* the steps of the server on connection c once it is accepted
RelayServerStep(c) ==
    \/ Admit(c)
    \/ Connect(c)
    \/ CopyC2O(c)
    \/ CopyO2C(c)
    \/ EndC2O(c)
    \/ EndO2C(c)
    \/ TimeoutC2O(c)
    \/ TimeoutO2C(c)
    \/ RelayEnd(c)
    \/ AbortO2C(c)

RelayNext ==
    \E c \in Conns :
        \/ AcceptTCP(c)
        \/ NegotiateMethods(c)
        \/ GetRequest(c)
        \/ ClientSend(c)
        \/ OriginSend(c)
        \/ ClientEnd(c)
        \/ OriginEnd(c)
        \/ RelayServerStep(c)

SpecRelay ==
    /\ InitRelay
    /\ [][RelayNext]_vars
    /\ \A c \in Conns : WF_vars(RelayServerStep(c))

(***************************************************************************)
(* The UDP relay: the ingress loop and the workers of ListenAndServe,      *)
(* handleUDPTask and DefaultHandle.UDPHandle (server.go).                  *)
(***************************************************************************)
\* the origin the clients address their datagrams to
OriginAddr == <<10, 0, 0, 9>>
OriginPort == <<0, 53>>
\* the packets the clients send: a datagram, one with FRAG = 1, one with no
\* data, and a truncated header
Packets ==
    {<<0, 0, 0, ATYPIPv4>> \o OriginAddr \o OriginPort \o <<7>>,
     <<0, 0, 1, ATYPIPv4>> \o OriginAddr \o OriginPort \o <<7>>,
     <<0, 0, 0, ATYPIPv4>> \o OriginAddr \o OriginPort,
     <<0, 0, 0>>}
\* the local addresses the outbound UDP sockets get
UDPLocals == {<<201, 1>>, <<201, 2>>}
\* no local address (the empty string)
NoLocal == <<>>

\* udpBufPool.Put and udpBufPool.Get, on the number of buffers in use
Put_Leak(n) == n
Put(n) == n - 1
Get(n) == n + 1

\* a send on the work channel that waits when the channel is full, as far as
\* it can be told from a send that does not
Offer_Waiting(q, task) == Append(q, task)
\* the select of the ingress loop: the task is sent on the work channel q if
\* the channel has room, and dropped otherwise
Offer(q, task) == IF Len(q) < MaxQueue THEN Append(q, task) ELSE q

\* The ingress loop: ReadFromUDP returns a packet from one of ips and one
\* of ports, one of pkts, which is queued unless the work channel is full;
\* the buffer of a packet that is dropped goes back to the pool.  The send
\* panics when Stop has closed the channel, and the panic of a goroutine
\* ends the process, with the buffer of the packet not returned.
UDPReceiveFrom(ips, ports, pkts) ==
    /\ alive
    /\ srv.udp = "running"
    /\ srv.UDPConn = "open"
    /\ \E ip \in ips, port \in ports, pkt \in pkts :
           LET task == [ip |-> ip, port |-> port, pkt |-> pkt]
           IN  IF srv.chClosed
               THEN /\ alive' = FALSE
                    /\ srv' = [srv EXCEPT !.udp = "panic"]
                    /\ udpBufPool' = Get(udpBufPool)
                    /\ UNCHANGED udpWorkCh
               ELSE /\ udpWorkCh' = Offer(udpWorkCh, task)
                    /\ udpBufPool' = IF udpWorkCh' # udpWorkCh THEN Get(udpBufPool)
                                      ELSE Get(Put(udpBufPool))
                    /\ UNCHANGED <<alive, srv>>
    /\ UNCHANGED <<config, codec, relay, conns, AssociatedUDP, closedCh,
                   workers, UDPExchanges, UDPSrc, rcOpen, readers>>
\* the clients send from the ports their control connections have
UDPReceiveOf(ips, pkts) == UDPReceiveFrom(ips, {RemotePort(c) : c \in Conns}, pkts)
\* the clients send any of Packets from any of SomeIPs
UDPReceive == UDPReceiveOf(SomeIPs, Packets)

\* sync.Map.Load
Load(m, key) == {e \in m : e.key = key}
\* a gate of UDPHandle that lets every source through
NotAssociated_Never(limit, m, src) == FALSE
\* the gate at the head of UDPHandle: with LimitUDP the source src must have
\* an entry in the table m of the associations
NotAssociated(limit, m, src) == limit /\ Load(m, src) = {}
\* strconv.Itoa of a number that is not negative: its decimal digits, as
\* character codes
RECURSIVE Itoa(_)
Itoa(n) == IF n < 10 THEN <<48 + n>> ELSE Itoa(n \div 10) \o <<48 + (n % 10)>>
\* net.IP.String of the four bytes of an IPv4 address: dotted decimal
IPString(ip) ==
    IF Len(ip) # 4 THEN <<>>
    ELSE Itoa(ip[1]) \o <<46>> \o Itoa(ip[2]) \o <<46>> \o Itoa(ip[3]) \o <<46>> \o Itoa(ip[4])
\* net.JoinHostPort of a host and the two bytes of a port: host:port, the
\* host in brackets if it has a colon in it
JoinHostPort(host, port) ==
    LET p == IF Len(port) # 2 THEN <<>> ELSE Itoa(port[1] * 256 + port[2])
    IN  IF \E i \in 1..Len(host) : host[i] = 58
        THEN <<91>> \o host \o <<93>> \o <<58>> \o p
        ELSE host \o <<58>> \o p
\* net.UDPAddr.String() of the endpoint e of a client
UDPAddrString(e) == JoinHostPort(IPString(e[1]), e[2])
\* Datagram.Address(): the destination as host:port, the host being the
\* name without its length byte for a DOMAIN and the dotted address for IPv4
DatagramAddress(d) ==
    JoinHostPort(IF d.Atyp = ATYPDomain THEN Tail(d.DstAddr) ELSE IPString(d.DstAddr),
                 d.DstPort)
\* the flow key of UDPHandle: src + dst, the strings of the client's
\* endpoint and of the destination one after the other
FlowKey(src, dst) == UDPAddrString(src) \o dst

\* send of UDPHandle: the error it returns for a write on the socket rc,
\* which succeeds if wr
Send(rc, ch, wr) ==
    IF ch # 0 /\ ch \in closedCh THEN "association closed"
    ELSE IF rc \notin rcOpen \/ ~wr THEN ErrWrite
    ELSE ErrNil

\* the worker w has handled its task
Done(w, t, outcome) ==
    [workers EXCEPT ![w] = [IdleWorker EXCEPT !.last = [task |-> t, outcome |-> outcome]]]

\* a handleUDPTask that lets the fragments through
handleUDPTask_AnyFrag(allowed, dec) ==
    IF ~allowed THEN "denied"
    ELSE IF dec.err # ErrNil THEN "bad datagram"
    ELSE "UDPHandle"
\* handleUDPTask, up to the call of UDPHandle: what becomes of a task from a
\* source that is allowed or not, whose packet decodes as dec
handleUDPTask(allowed, dec) ==
    IF ~allowed THEN "denied"
    ELSE IF dec.err # ErrNil THEN "bad datagram"
    ELSE IF dec.d.Frag # 0 THEN "fragment"
    ELSE "UDPHandle"

\* a worker receives a task and runs handleUDPTask, up to the dial of
\* UDPHandle; the buffer of the task goes back to the pool when
\* handleUDPTask returns
HandleUDPTask(w) ==
    /\ alive
    /\ workers[w].pc = "idle"
    /\ udpWorkCh # <<>>
    /\ \E t \in {Head(udpWorkCh)} :
       \E src \in {Endpoint(IPv4Bytes(t.ip), t.port)}, dec \in {NewDatagramFromBytes(t.pkt)} :
       \E dst \in {DatagramAddress(dec.d)} :
       \E hit \in {Load(UDPExchanges, FlowKey(src, dst))}, wr \in BOOLEAN :
           LET assoc == Load(AssociatedUDP, src)
               gated == NotAssociated(LimitUDP, AssociatedUDP, src)
               ch == IF LimitUDP /\ assoc # {} THEN (CHOOSE e \in assoc : TRUE).ch ELSE 0
               ue == (CHOOSE e \in hit : TRUE).ue
               what == handleUDPTask(IsAllowed(AllowedIPs, AllowedCIDRs, t.ip), dec)
               sends == what = "UDPHandle" /\ ~gated /\ hit # {}
           IN
               /\ ~sends => wr
               /\ workers' =
                      IF what # "UDPHandle" THEN Done(w, t, what)
                      ELSE IF gated THEN Done(w, t, "not associated")
                      ELSE IF hit # {} THEN Done(w, t, Send(ue.rc, ch, wr))
                      ELSE [workers EXCEPT ![w] =
                               [@ EXCEPT !.pc = "dial", !.addr = src, !.d = dec.d, !.ch = ch,
                                         !.last = [task |-> t, outcome |-> "handling"]]]
    /\ udpWorkCh' = Tail(udpWorkCh)
    /\ udpBufPool' = IF workers'[w].pc = "dial" THEN udpBufPool ELSE Put(udpBufPool)
    /\ closedCh' = closedCh \cap HeldCh(workers', readers)
    /\ UNCHANGED <<config, codec, srv, relay, alive, conns, AssociatedUDP,
                   UDPExchanges, UDPSrc, rcOpen, readers>>

\* the sockets that are referred to
RcInUse == {e.ue.rc : e \in UDPExchanges} \cup {r.ue.rc : r \in readers} \cup rcOpen
NewRc == CHOOSE i \in 1..(Cardinality(RcInUse) + 1) :
             i \notin RcInUse /\ \A j \in 1..(i - 1) : j \in RcInUse

\* UDPHandle from the dial on: bind says whether the cached local address
\* can be bound, dial whether the origin can be dialed, la is the local
\* address of a socket bound to no address, wr whether the write succeeds
UDPDial(w) ==
    /\ alive
    /\ workers[w].pc = "dial"
    /\ Cardinality(readers) < MaxReaders
    /\ \E me \in {workers[w]}, rc \in {NewRc} :
       \E dst \in {DatagramAddress(me.d)} :
       \E key \in {FlowKey(me.addr, dst)} :
       \E cached \in {Load(UDPSrc, key)}, bind, dial, wr \in BOOLEAN, la \in UDPLocals :
           LET t == me.last.task
               laddr0 == IF cached # {} THEN (CHOOSE e \in cached : TRUE).ch ELSE NoLocal
               first == dial /\ (laddr0 = NoLocal \/ bind)
               laddr == IF first THEN laddr0 ELSE NoLocal
               local == IF laddr # NoLocal THEN laddr ELSE la
               ue == [ClientAddr |-> me.addr, rc |-> rc, local |-> local]
               sent == IF me.ch # 0 /\ me.ch \in closedCh THEN "association closed"
                       ELSE IF ~wr THEN ErrWrite ELSE ErrNil
           IN  /\ laddr0 = NoLocal => bind
               /\ ~dial => (bind /\ wr /\ la = CHOOSE l \in UDPLocals : TRUE)
               /\ udpBufPool' = IF dial /\ sent = ErrNil THEN Get(Put(udpBufPool))
                                 ELSE Put(udpBufPool)
               /\ IF ~dial
                  THEN /\ workers' = Done(w, t, ErrDial)
                       /\ UNCHANGED <<UDPExchanges, UDPSrc, rcOpen, readers>>
                  ELSE /\ UDPSrc' = IF laddr = NoLocal THEN Store(UDPSrc, key, local)
                                    ELSE UDPSrc
                       /\ workers' = Done(w, t, sent)
                       /\ IF sent # ErrNil
                          THEN UNCHANGED <<UDPExchanges, rcOpen, readers>>
                          ELSE /\ UDPExchanges' =
                                      {e \in UDPExchanges : e.key # key}
                                          \cup {[key |-> key, ue |-> ue]}
                               /\ rcOpen' = rcOpen \cup {rc}
                               /\ readers' = readers \cup
                                      {[ue |-> ue, dst |-> dst, ch |-> me.ch, pc |-> "select"]}
    /\ closedCh' = closedCh \cap HeldCh(workers', readers')
    /\ UNCHANGED <<config, codec, srv, relay, alive, conns, AssociatedUDP, udpWorkCh>>

\* the return of the upstream reader r in one step: the buffer goes back to
\* the pool, and the deferred function closes the socket and deletes the
\* entry of the flow key
ReaderExit(r) ==
    /\ rcOpen' = rcOpen \ {r.ue.rc}
    /\ \E key \in {FlowKey(r.ue.ClientAddr, r.dst)} :
           UDPExchanges' = {e \in UDPExchanges : e.key # key}
    /\ readers' = readers \ {r}
    /\ udpBufPool' = Put(udpBufPool)
    /\ closedCh' = closedCh \cap HeldCh(workers, readers')
    /\ UNCHANGED <<config, codec, srv, relay, alive, conns, AssociatedUDP, udpWorkCh, workers, UDPSrc>>

\* the return of the upstream reader r, when its deferred functions are
\* followed one by one: the buffer goes back to the pool first
ReaderReturn(r) ==
    /\ readers' = (readers \ {r}) \cup {[r EXCEPT !.pc = "close"]}
    /\ udpBufPool' = Put(udpBufPool)
    /\ UNCHANGED <<config, codec, srv, relay, alive, conns, AssociatedUDP, closedCh,
                   udpWorkCh, workers, UDPExchanges, UDPSrc, rcOpen>>
\* then the first statement of the deferred function: ue.RemoteConn.Close()
ReaderClose(r) ==
    /\ alive
    /\ r \in readers
    /\ r.pc = "close"
    /\ rcOpen' = rcOpen \ {r.ue.rc}
    /\ readers' = (readers \ {r}) \cup {[r EXCEPT !.pc = "delete"]}
    /\ UNCHANGED <<config, codec, srv, relay, alive, conns, AssociatedUDP, closedCh,
                   udpWorkCh, workers, UDPExchanges, UDPSrc, udpBufPool>>
\* and its second: s.UDPExchanges.Delete(ue.ClientAddr.String() + dst)
ReaderDelete(r) ==
    /\ alive
    /\ r \in readers
    /\ r.pc = "delete"
    /\ \E key \in {FlowKey(r.ue.ClientAddr, r.dst)} :
           UDPExchanges' = {e \in UDPExchanges : e.key # key}
    /\ readers' = readers \ {r}
    /\ closedCh' = closedCh \cap HeldCh(workers, readers')
    /\ UNCHANGED <<config, codec, srv, relay, alive, conns, AssociatedUDP, udpWorkCh,
                   workers, UDPSrc, rcOpen, udpBufPool>>

\* the reader r returns from its loop: with its deferred functions
\* followed one by one if stepwise, in one step if not
ReaderEnds(r, stepwise) == IF stepwise THEN ReaderReturn(r) ELSE ReaderExit(r)

\* the select at the head of the reader's loop: return if the association
\* channel is closed, else set the deadline and read
ReaderSelectBy(r, stepwise) ==
    /\ alive
    /\ r \in readers
    /\ r.pc = "select"
    /\ IF r.ch # 0 /\ r.ch \in closedCh
       THEN ReaderEnds(r, stepwise)
       ELSE /\ readers' = (readers \ {r}) \cup {[r EXCEPT !.pc = "read"]}
            /\ UNCHANGED <<config, codec, srv, relay, alive, conns, AssociatedUDP, closedCh,
                           udpWorkCh, workers, UDPExchanges, UDPSrc, rcOpen, udpBufPool>>

ReaderSelect(r) == ReaderSelectBy(r, FALSE)

\* the origin answers: the reader sends the datagram to the client, and
\* returns if WriteToUDP fails, as it does on a socket that is closed
ReaderReadBy(r, stepwise) ==
    /\ alive
    /\ r \in readers
    /\ r.pc = "read"
    /\ \E wr \in BOOLEAN :
           /\ srv.UDPConn # "open" => ~wr
           /\ IF ~wr
              THEN ReaderEnds(r, stepwise)
              ELSE /\ readers' = (readers \ {r}) \cup {[r EXCEPT !.pc = "select"]}
                   /\ UNCHANGED <<config, codec, srv, relay, alive, conns, AssociatedUDP,
                                  closedCh, udpWorkCh, workers, UDPExchanges, UDPSrc,
                                  rcOpen, udpBufPool>>

ReaderRead(r) == ReaderReadBy(r, FALSE)

\* the read of the reader fails: an error of the socket, or the deadline
\* when UDPTimeout is not 0
ReaderReadErrorBy(r, stepwise) ==
    /\ alive
    /\ r \in readers
    /\ r.pc = "read"
    /\ \E timeout \in BOOLEAN :
           /\ timeout => UDPTimeout # 0
           /\ ReaderEnds(r, stepwise)
ReaderReadError(r) == ReaderReadErrorBy(r, FALSE)

\* the reader goroutines there can be
Readers ==
    [ue : [ClientAddr : {Endpoint(IPv4Bytes(ip), RemotePort(c)) : ip \in IPs, c \in Conns},
           rc : 1..MaxReaders, local : UDPLocals],
     dst : {JoinHostPort(IPString(OriginAddr), OriginPort)},
     ch : 0..(MaxConns + MaxWorkers + MaxReaders + 1),
     pc : {"select", "read"}]

UDPNext ==
    \/ UDPReceive
    \/ \E w \in Workers : HandleUDPTask(w) \/ UDPDial(w)
    \/ \E r \in Readers : ReaderSelect(r) \/ ReaderRead(r) \/ ReaderReadError(r)

\* the whole server
Next == TCPNext \/ UDPNext

(***************************************************************************)
(* ListenAndServe and Shutdown (server.go).  The runner group is not part  *)
(* of the repository: it is what the specification says of it, a list of   *)
(* (Start, Stop) pairs that starts each on its own task, waits for the     *)
(* first to return, and invokes Stop on the rest.  A Stop is invoked at    *)
(* most once here.                                                         *)
(***************************************************************************)
ErrListen == "listen error"
ErrAccept == "accept error"

\* ListenAndServe up to RunnerGroup.Wait: tcpOK and udpOK say whether
\* ListenTCP and ListenUDP succeed
ListenAndServe ==
    /\ alive
    /\ srv.phase = "new"
    /\ \E tcpOK, udpOK \in BOOLEAN :
           /\ ~tcpOK => udpOK
           /\ srv' = IF ~tcpOK
                     THEN [srv EXCEPT !.phase = "returned", !.err = ErrListen]
                     ELSE IF ~udpOK
                     THEN [srv EXCEPT !.phase = "returned", !.err = ErrListen,
                                      !.l = "closed"]
                     ELSE Serving
    /\ UNCHANGED <<config, codec, alive, conns, relay, AssociatedUDP, closedCh, udp>>

\* the loop that returned first, after one more has returned
FirstOf(loop) == IF srv.first = "none" THEN loop ELSE srv.first

\* l.AcceptTCP() returns an error, as it does when the listener is closed:
\* the accept loop returns it
AcceptError ==
    /\ alive
    /\ srv.tcp = "running"
    /\ srv' = [srv EXCEPT !.tcp = "returned", !.first = FirstOf("tcp")]
    /\ UNCHANGED <<config, codec, alive, conns, relay, AssociatedUDP, closedCh, udp>>
\* the accept on a listener that is closed
AcceptClosed == srv.l = "closed" /\ AcceptError

\* ReadFromUDP returns an error, as it does when the socket is closed: the
\* ingress loop puts its buffer back and returns the error
UDPReadError ==
    /\ alive
    /\ srv.udp = "running"
    /\ srv' = [srv EXCEPT !.udp = "returned", !.first = FirstOf("udp")]
    /\ UNCHANGED <<config, codec, alive, conns, relay, AssociatedUDP, closedCh, udp>>
\* the read on a socket that is closed
UDPReadClosed == srv.UDPConn = "closed" /\ UDPReadError

\* a worker finds the work channel closed and empty: its range loop ends
WorkerExit(w) ==
    /\ alive
    /\ workers[w].pc = "idle"
    /\ udpWorkCh = <<>>
    /\ srv.chClosed
    /\ workers' = [workers EXCEPT ![w].pc = "exit"]
    /\ UNCHANGED <<config, codec, srv, alive, conns, relay, AssociatedUDP, closedCh,
                   udpWorkCh, UDPExchanges, UDPSrc, rcOpen, readers, udpBufPool>>

\* Shutdown is called: RunnerGroup.Done
Shutdown ==
    /\ alive
    /\ srv.phase = "serving"
    /\ srv.shutdown = "no"
    /\ srv' = [srv EXCEPT !.shutdown = "called"]
    /\ UNCHANGED <<config, codec, alive, conns, relay, AssociatedUDP, closedCh, udp>>

\* the runner group invokes the Stop of the runner of loop ("tcp" or
\* "udp"): RunnerGroup.Done invokes the Stop of both runners, and
\* RunnerGroup.Wait that of the runner whose loop did not return first
RunnerStops(loop) ==
    \/ srv.shutdown = "called"
    \/ srv.phase = "serving" /\ srv.first \notin {"none", loop}

\* Stop of the TCP runner: l.Close()
StopTCP ==
    /\ alive
    /\ RunnerStops("tcp")
    /\ srv.stopTCP = "no"
    /\ srv' = [srv EXCEPT !.stopTCP = "done", !.l = "closed"]
    /\ UNCHANGED <<config, codec, alive, conns, relay, AssociatedUDP, closedCh, udp>>

\* Stop of the UDP runner, its first statement: close(s.udpWorkCh)
StopUDPChannel ==
    /\ alive
    /\ RunnerStops("udp")
    /\ srv.stopUDP = "no"
    /\ srv' = [srv EXCEPT !.stopUDP = "closing", !.chClosed = TRUE]
    /\ UNCHANGED <<config, codec, alive, conns, relay, AssociatedUDP, closedCh, udp>>

\* Stop of the UDP runner, its second statement: s.UDPConn.Close()
StopUDPConn ==
    /\ alive
    /\ srv.stopUDP = "closing"
    /\ srv' = [srv EXCEPT !.stopUDP = "done", !.UDPConn = "closed"]
    /\ UNCHANGED <<config, codec, alive, conns, relay, AssociatedUDP, closedCh, udp>>

\* the Stop of the runner of loop has returned
StopDone(loop) == IF loop = "tcp" THEN srv.stopTCP = "done" ELSE srv.stopUDP = "done"
\* the loop that is not loop
Other(loop) == IF loop = "tcp" THEN "udp" ELSE "tcp"

\* the error a loop returns
LoopErr(loop) == IF loop = "tcp" THEN ErrAccept ELSE ErrRead

\* RunnerGroup.Wait returns the error of the loop that returned first, once
\* Stop has been invoked on the rest: ListenAndServe returns it
WaitReturns ==
    /\ alive
    /\ srv.phase = "serving"
    /\ srv.first # "none"
    /\ StopDone(Other(srv.first))
    /\ srv' = [srv EXCEPT !.phase = "returned", !.err = LoopErr(srv.first)]
    /\ UNCHANGED <<config, codec, alive, conns, relay, AssociatedUDP, closedCh, udp>>

\* RunnerGroup.Done returns once it has invoked the Stop of both runners and
\* both loops have returned: Shutdown returns
ShutdownReturns ==
    /\ alive
    /\ srv.shutdown = "called"
    /\ StopDone("tcp")
    /\ StopDone("udp")
    /\ srv.tcp = "returned"
    /\ srv.udp = "returned"
    /\ srv' = [srv EXCEPT !.shutdown = "returned"]
    /\ UNCHANGED <<config, codec, alive, conns, relay, AssociatedUDP, closedCh, udp>>

\* the deadline of the read of the reader r passes
ReaderDeadline(r) ==
    /\ alive
    /\ r \in readers
    /\ r.pc = "read"
    /\ UDPTimeout # 0
    /\ ReaderExit(r)

(***************************************************************************)
(* The server with LimitUDP and UDPTimeout 0 or 60, from ListenAndServe to *)
(* Shutdown, with clients that associate and send datagrams to an origin.  *)
(* The steps of the server are fair; the clients, the origin and the       *)
(* errors of the sockets that are open are not.                            *)
(***************************************************************************)
\* what the clients send: a negotiation that offers no authentication and a
\* UDP ASSOCIATE for the address of the connection
ServeNegFrames == {<<Ver, 1, MethodNone>>}
ServeRequestFrames == {<<Ver, CmdUDP, 0, ATYPIPv4>> \o Zeros(4) \o <<0, 0>>}
ServeIPs == {1}
ServePackets == {<<0, 0, 0, ATYPIPv4>> \o OriginAddr \o OriginPort \o <<7>>}

InitServe ==
    /\ NewServer(<<>>, <<>>, <<>>)
    /\ LimitUDP = TRUE
    /\ UDPTimeout \in {0, 60}
    /\ TCPTimeout = 0
    /\ srv = NewSrv

\* the steps of the goroutine of the connection c
ServeConnStep(c) ==
    \/ Admit(c)
    \/ UDP(c)

\* the steps of ListenAndServe, of its loops once their sockets are closed,
\* and of the runner group
ServeStep ==
    \/ ListenAndServe
    \/ AcceptClosed
    \/ UDPReadClosed
    \/ StopTCP
    \/ StopUDPChannel
    \/ StopUDPConn
    \/ WaitReturns
    \/ ShutdownReturns

ServeNext ==
    \/ ServeStep
    \/ AcceptError
    \/ UDPReadError
    \/ Shutdown
    \/ UDPReceiveOf(ServeIPs, ServePackets)
    \/ \E c \in Conns :
           \/ AcceptTCPOf(c, ServeIPs)
           \/ NegotiateMethodsOf(c, ServeNegFrames)
           \/ GetRequestOf(c, ServeRequestFrames)
           \/ ServeConnStep(c)
           \/ AssocEnd(c)
    \/ \E w \in Workers : HandleUDPTask(w) \/ UDPDial(w) \/ WorkerExit(w)
    \/ \E r \in Readers : ReaderSelect(r) \/ ReaderRead(r) \/ ReaderReadError(r)

\* the same server and clients once ListenAndServe waits, with no Shutdown
\* and no error of the listener or of the UDP socket
InitCancel ==
    /\ NewServer(<<>>, <<>>, <<>>)
    /\ LimitUDP = TRUE
    /\ UDPTimeout \in {0, 60}
    /\ TCPTimeout = 0
    /\ srv = Serving

CancelNext ==
    \/ UDPReceiveOf(ServeIPs, ServePackets)
    \/ \E c \in Conns :
           \/ AcceptTCPOf(c, ServeIPs)
           \/ NegotiateMethodsOf(c, ServeNegFrames)
           \/ GetRequestOf(c, ServeRequestFrames)
           \/ ServeConnStep(c)
           \/ AssocEnd(c)
    \/ \E w \in Workers : HandleUDPTask(w) \/ UDPDial(w)
    \/ \E r \in Readers : ReaderSelect(r) \/ ReaderRead(r) \/ ReaderReadError(r)

SpecCancel ==
    /\ InitCancel
    /\ [][CancelNext]_vars
    /\ \A c \in Conns : WF_vars(ServeConnStep(c))
    /\ \A w \in Workers : WF_vars(HandleUDPTask(w) \/ UDPDial(w))
    /\ \A r \in Readers : WF_vars(ReaderSelect(r)) /\ WF_vars(ReaderDeadline(r))

SpecServe ==
    /\ InitServe
    /\ [][ServeNext]_vars
    /\ WF_vars(ServeStep)
    /\ \A c \in Conns : WF_vars(ServeConnStep(c))
    /\ \A w \in Workers : WF_vars(HandleUDPTask(w) \/ UDPDial(w) \/ WorkerExit(w))
    /\ \A r \in Readers : WF_vars(ReaderSelect(r)) /\ WF_vars(ReaderDeadline(r))

(***************************************************************************)
(* The server with LimitUDP, no credentials and no allow-list: the UDP     *)
(* associations, the ingress loop and the workers up to the dial of        *)
(* UDPHandle, which has not returned yet for the datagrams that got there. *)
(***************************************************************************)
InitAssoc ==
    /\ NewServer(<<>>, <<>>, <<>>)
    /\ LimitUDP = TRUE
    /\ UDPTimeout = 60
    /\ TCPTimeout = 0
    /\ srv = Serving

AssocNext ==
    \/ \E c \in Conns :
           \/ AcceptTCP(c)
           \/ Admit(c)
           \/ NegotiateMethods(c)
           \/ GetRequest(c)
           \/ UDP(c)
           \/ AssocEnd(c)
    \/ UDPReceive
    \/ \E w \in Workers : HandleUDPTask(w)

SpecAssoc == InitAssoc /\ [][AssocNext]_vars

(***************************************************************************)
(* The wire codec called on its own (server_side.go): NewRequestFrom on a  *)
(* stream, NewDatagramFromBytes on a packet, and NewDatagram,              *)
(* Datagram.Bytes and NewDatagramFromBytes in turn.                        *)
(***************************************************************************)
\* the streams NewRequestFrom is called on: the prefixes of the frames with
\* either version, any command, RSV 0 or 9 and any ATYP, and of these frames
\* followed by one more byte
CodecStreamsOf(atyp) ==
    UNION {Prefixes(<<v, cmd, rsv, atyp>> \o a \o <<0, 80>> \o x) :
           v \in {4, Ver}, cmd \in {CmdConnect, CmdUDP}, rsv \in {0, 9},
           a \in DstAddrs(atyp), x \in {<<>>, <<33>>}}
CodecStreams == UNION {CodecStreamsOf(atyp) : atyp \in {ATYPIPv4, 2, ATYPDomain, ATYPIPv6}}
\* the payloads of the datagrams
Payloads == SeqsUpTo({7, 8}, MaxPayload)
\* the addresses on the wire of a datagram of ATYP atyp
WireAddrs(atyp) ==
    IF atyp = ATYPIPv4 THEN {OriginAddr}
    ELSE IF atyp = ATYPIPv6 THEN {Zeros(15) \o <<1>>}
    ELSE IF atyp = ATYPDomain THEN {<<0>>, <<1, 97>>, <<2, 97, 98>>}
    ELSE {<<>>}
\* the packets NewDatagramFromBytes is called on
CodecPacketsOf(atyp) ==
    UNION {Prefixes(<<0, rsv, frag, atyp>> \o a \o OriginPort \o data) :
           rsv \in {0, 1}, frag \in {0, 1},
           a \in WireAddrs(atyp), data \in Payloads}
CodecPackets == UNION {CodecPacketsOf(atyp) : atyp \in {ATYPIPv4, 2, ATYPDomain, ATYPIPv6}}
\* the addresses NewDatagram is called with
DatagramAddrs(atyp) ==
    IF atyp = ATYPIPv4 THEN {OriginAddr}
    ELSE IF atyp = ATYPIPv6 THEN {Zeros(15) \o <<1>>}
    ELSE {<<97>>, <<97, 98>>}

\* NewRequestFrom is called on a stream
DecodeRequest ==
    /\ codec.op = "none"
    /\ \E s \in CodecStreams :
           LET rr == NewRequestFrom(s)
           IN  codec' = [NoCodec EXCEPT !.op = "NewRequestFrom", !.in = s,
                                        !.r = rr.r, !.err = rr.err, !.n = rr.n]
    /\ UNCHANGED <<config, srv, alive, conns, relay, AssociatedUDP, closedCh, udp>>

\* NewDatagramFromBytes is called on a packet
DecodeDatagram ==
    /\ codec.op = "none"
    /\ \E bb \in CodecPackets :
           LET dec == NewDatagramFromBytes(bb)
           IN  codec' = [NoCodec EXCEPT !.op = "NewDatagramFromBytes", !.in = bb,
                                        !.d = dec.d, !.err = dec.err]
    /\ UNCHANGED <<config, srv, alive, conns, relay, AssociatedUDP, closedCh, udp>>

\* NewDatagram is called
BuildDatagram ==
    /\ codec.op = "none"
    /\ \E atyp \in {ATYPIPv4, ATYPDomain, ATYPIPv6}, port \in {OriginPort, <<255, 255>>},
          data \in Payloads :
           \E a \in DatagramAddrs(atyp) :
               codec' = [NoCodec EXCEPT !.op = "NewDatagram",
                                        !.d = NewDatagram(atyp, a, port, data)]
    /\ UNCHANGED <<config, srv, alive, conns, relay, AssociatedUDP, closedCh, udp>>

\* Datagram.Bytes is called on the datagram that was built or decoded
EncodeDatagram ==
    /\ \/ codec.op = "NewDatagram"
       \/ codec.op = "NewDatagramFromBytes" /\ codec.err = ErrNil
    /\ codec' = [codec EXCEPT !.bytes = DatagramBytes(codec.d),
                              !.op = IF codec.op = "NewDatagram" THEN "Bytes of built"
                                     ELSE "Bytes of decoded"]
    /\ UNCHANGED <<config, srv, alive, conns, relay, AssociatedUDP, closedCh, udp>>

\* NewDatagramFromBytes is called on the bytes of the datagram that was built
RedecodeDatagram ==
    /\ codec.op = "Bytes of built"
    /\ LET dec == NewDatagramFromBytes(codec.bytes)
       IN  codec' = [codec EXCEPT !.op = "round trip", !.d2 = dec.d, !.err2 = dec.err]
    /\ UNCHANGED <<config, srv, alive, conns, relay, AssociatedUDP, closedCh, udp>>

CodecNext ==
    \/ DecodeRequest
    \/ DecodeDatagram
    \/ BuildDatagram
    \/ EncodeDatagram
    \/ RedecodeDatagram

InitCodec ==
    /\ NewServer(<<>>, <<>>, <<>>)
    /\ LimitUDP = FALSE
    /\ UDPTimeout = 60
    /\ TCPTimeout = 0
    /\ srv = Serving

SpecCodec == InitCodec /\ [][CodecNext]_vars

(***************************************************************************)
(* The server with any allow-list of AllowLists, with clients that connect *)
(* and send datagrams from any address and send nothing on their TCP       *)
(* connections: the admission of the connections, and the UDP relay.       *)
(***************************************************************************)
SomeEntries ==
    {[k |-> "ip", ip |-> 1, bits |-> IPBits],
     [k |-> "cidr", ip |-> 1, bits |-> 1],
     [k |-> "cidr", ip |-> 2 ^ IPBits - 1, bits |-> IPBits],
     [k |-> "bad", ip |-> 0, bits |-> 0],
     [k |-> "blank", ip |-> 0, bits |-> 0]}
AllowLists == SeqsUpTo(SomeEntries, MaxWhiteList)

InitAllow ==
    /\ \E list \in AllowLists : NewServer(list, <<>>, <<>>)
    /\ LimitUDP = FALSE
    /\ UDPTimeout = 60
    /\ TCPTimeout = 0
    /\ srv = Serving

\* the readers of these flows: no client has an association, so no flow has
\* an association channel (ch is 0)
AllowReaders == {r \in Readers : r.ch = 0}

AllowNext ==
    \/ \E c \in Conns : AcceptTCP(c) \/ Admit(c)
    \/ UDPReceive
    \/ \E w \in Workers : HandleUDPTask(w) \/ UDPDial(w)
    \/ \E r \in AllowReaders : ReaderSelect(r) \/ ReaderRead(r) \/ ReaderReadError(r)

SpecAllow == InitAllow /\ [][AllowNext]_vars

(***************************************************************************)
(* The flows of UDPHandle under several workers.  The statements of        *)
(* UDPHandle after the lookup of the flow, and the deferred functions of   *)
(* the upstream reader, are steps of their own, so that the workers and    *)
(* the readers interleave as the goroutines do.  LimitUDP is off.          *)
(***************************************************************************)
\* the number of the workers (4 for each CPU in ListenAndServe)
FlowWorkerCount == 2
FlowWorkers == 1..FlowWorkerCount
\* the clients of the flows: one address, and the source port 5 or the
\* source ports 5 and 53
FlowIPs == {1}
FlowPorts == {<<0, 5>>}
KeyPorts == {<<0, 5>>, <<0, 53>>}
\* their datagrams: the client at port 5 sends to the name "3x", port 53,
\* and the client at port 53 to the name "x", port 53
FlowPacket(port) ==
    IF port = <<0, 5>> THEN <<0, 0, 0, ATYPDomain, 2, 51, 120, 0, 53, 7>>
    ELSE <<0, 0, 0, ATYPDomain, 1, 120, 0, 53, 7>>
FlowPackets == {FlowPacket(port) : port \in KeyPorts}

\* the local addresses of the outbound sockets that are open
OpenLocals ==
    {workers[w].local : w \in {v \in DOMAIN workers : workers[v].pc \in {"dialed", "send"}}}
        \cup {r.ue.local : r \in {q \in readers : q.ue.rc \in rcOpen}}

\* UDPHandle, the lookup of the local address and the dial: DialUDP with
\* the cached local address, and with none if that fails.  bind says
\* whether the cached address can be bound, which it cannot while a socket
\* that is open has it; dial whether the origin can be dialed; la is the
\* local address of a socket bound to no address, one no open socket has
UDPHandleDial(w) ==
    /\ alive
    /\ workers[w].pc = "dial"
    /\ \E bind, dial \in BOOLEAN, la \in UDPLocals :
           LET me == workers[w]
               key == FlowKey(me.addr, DatagramAddress(me.d))
               cached == Load(UDPSrc, key)
               laddr0 == IF cached # {} THEN (CHOOSE e \in cached : TRUE).ch ELSE NoLocal
               first == /\ dial
                        /\ IF laddr0 = NoLocal THEN la \notin OpenLocals
                           ELSE bind /\ laddr0 \notin OpenLocals
               second == ~first /\ dial /\ la \notin OpenLocals
               laddr == IF first THEN laddr0 ELSE NoLocal
               local == IF laddr # NoLocal THEN laddr ELSE la
           IN  IF ~(first \/ second)
               THEN /\ workers' = Done(w, me.last.task, ErrDial)
                    /\ udpBufPool' = Put(udpBufPool)
                    /\ UNCHANGED <<rcOpen, srv>>
               ELSE /\ workers' = [workers EXCEPT ![w] =
                            [@ EXCEPT !.pc = "dialed", !.rc = NewRc,
                                      !.local = local, !.laddr = laddr]]
                    /\ rcOpen' = rcOpen \cup {NewRc}
                    /\ srv' = [srv EXCEPT !.dialed = Store(@, key, local)]
                    /\ UNCHANGED udpBufPool
    /\ closedCh' = closedCh \cap HeldCh(workers', readers)
    /\ UNCHANGED <<config, codec, relay, alive, conns, AssociatedUDP, udpWorkCh,
                   UDPExchanges, UDPSrc, readers>>

\* UDPHandle, after the dial: the local address of the socket is stored in
\* UDPSrc if the socket was dialed with no local address
UDPHandleStoreSrc(w) ==
    /\ alive
    /\ workers[w].pc = "dialed"
    /\ LET me == workers[w]
           key == FlowKey(me.addr, DatagramAddress(me.d))
       IN  UDPSrc' = IF me.laddr = NoLocal THEN Store(UDPSrc, key, me.local) ELSE UDPSrc
    /\ workers' = [workers EXCEPT ![w].pc = "send"]
    /\ UNCHANGED <<config, codec, srv, relay, alive, conns, AssociatedUDP, closedCh,
                   udpWorkCh, UDPExchanges, rcOpen, readers, udpBufPool>>

\* a first send that leaves the socket open when it fails
UDPHandleSend_NoClose(w) ==
    /\ alive
    /\ workers[w].pc = "send"
    /\ Cardinality(readers) < MaxReaders
    /\ \E wr \in BOOLEAN :
           LET me == workers[w]
               dst == DatagramAddress(me.d)
               key == FlowKey(me.addr, dst)
               ue == [ClientAddr |-> me.addr, rc |-> me.rc, local |-> me.local]
               sent == Send(me.rc, me.ch, wr)
           IN  /\ workers' = Done(w, me.last.task, sent)
               /\ IF sent # ErrNil
                  THEN /\ rcOpen' = rcOpen
                       /\ udpBufPool' = Put(udpBufPool)
                       /\ UNCHANGED <<UDPExchanges, readers>>
                  ELSE /\ UDPExchanges' = {e \in UDPExchanges : e.key # key}
                                              \cup {[key |-> key, ue |-> ue]}
                       /\ readers' = readers \cup
                              {[ue |-> ue, dst |-> dst, ch |-> me.ch, pc |-> "select"]}
                       /\ udpBufPool' = Get(Put(udpBufPool))
                       /\ UNCHANGED rcOpen
    /\ closedCh' = closedCh \cap HeldCh(workers', readers')
    /\ UNCHANGED <<config, codec, srv, relay, alive, conns, AssociatedUDP, udpWorkCh,
                   UDPSrc>>
\* UDPHandle, the first send: if it fails the socket is closed, else the
\* exchange is stored under the flow key and its reader is started; the
\* buffer of the task goes back to the pool as handleUDPTask returns
UDPHandleSend(w) ==
    /\ alive
    /\ workers[w].pc = "send"
    /\ Cardinality(readers) < MaxReaders
    /\ \E wr \in BOOLEAN :
           LET me == workers[w]
               dst == DatagramAddress(me.d)
               key == FlowKey(me.addr, dst)
               ue == [ClientAddr |-> me.addr, rc |-> me.rc, local |-> me.local]
               sent == Send(me.rc, me.ch, wr)
           IN  /\ workers' = Done(w, me.last.task, sent)
               /\ IF sent # ErrNil
                  THEN /\ rcOpen' = rcOpen \ {me.rc}
                       /\ udpBufPool' = Put(udpBufPool)
                       /\ UNCHANGED <<UDPExchanges, readers>>
                  ELSE /\ UDPExchanges' = {e \in UDPExchanges : e.key # key}
                                              \cup {[key |-> key, ue |-> ue]}
                       /\ readers' = readers \cup
                              {[ue |-> ue, dst |-> dst, ch |-> me.ch, pc |-> "select"]}
                       /\ udpBufPool' = Get(Put(udpBufPool))
                       /\ UNCHANGED rcOpen
    /\ closedCh' = closedCh \cap HeldCh(workers', readers')
    /\ UNCHANGED <<config, codec, srv, relay, alive, conns, AssociatedUDP, udpWorkCh,
                   UDPSrc>>

\* the reader goroutines there can be in the flows
FlowReaders ==
    [ue : [ClientAddr : {Endpoint(IPv4Bytes(ip), port) : ip \in FlowIPs, port \in KeyPorts},
           rc : 1..(MaxReaders + FlowWorkerCount), local : UDPLocals],
     dst : {DatagramAddress(NewDatagramFromBytes(p).d) : p \in FlowPackets},
     ch : {0},
     pc : {"select", "read", "close", "delete"}]

InitFlow ==
    /\ NewServerWith(<<>>, <<>>, <<>>, Conns, FlowWorkers)
    /\ LimitUDP = FALSE
    /\ UDPTimeout = 60
    /\ TCPTimeout = 0
    /\ srv = Serving

FlowNext ==
    \/ \E port \in FlowPorts : UDPReceiveFrom(FlowIPs, {port}, {FlowPacket(port)})
    \/ \E w \in FlowWorkers : \/ HandleUDPTask(w)
                               \/ UDPHandleDial(w)
                               \/ UDPHandleStoreSrc(w)
                               \/ UDPHandleSend(w)
    \/ \E r \in FlowReaders : \/ ReaderSelectBy(r, TRUE)
                               \/ ReaderReadBy(r, TRUE)
                               \/ ReaderReadErrorBy(r, TRUE)
                               \/ ReaderClose(r)
                               \/ ReaderDelete(r)

SpecFlow == InitFlow /\ [][FlowNext]_vars

(***************************************************************************)
(* Two control connections that make UDP associations, with LimitUDP on.   *)
(* The call of Request.UDP, which writes the reply, and the statements of  *)
(* TCPHandle that follow it are steps of their own.                        *)
(***************************************************************************)
\* the number of the control connections
PairConnCount == 2
PairConns == 1..PairConnCount
\* what the clients send: a UDP ASSOCIATE for the address of the connection,
\* or one that names the endpoint 10.0.0.1:9
PairEndpoint == Endpoint(IPv4Bytes(1), <<0, 9>>)
PairRequestFrames ==
    {<<Ver, CmdUDP, 0, ATYPIPv4>> \o Zeros(4) \o <<0, 0>>,
     <<Ver, CmdUDP, 0, ATYPIPv4>> \o PairEndpoint[1] \o PairEndpoint[2]}

\* TCPHandle for UDP ASSOCIATE, the call of r.UDP: Request.UDP writes the
\* reply and returns the client's endpoint.  With a nil caddr and a nil
\* error caddr.String() panics.
UDPReply(c) ==
    /\ alive
    /\ conns[c].pc = "handle"
    /\ conns[c].r.Cmd = CmdUDP
    /\ \E resolves, w \in BOOLEAN :
           LET remote == Endpoint(IPv4Bytes(conns[c].ip), RemotePort(c))
               res == RequestUDP(conns[c].r, remote, resolves, w)
               cn == [conns[c] EXCEPT !.out = Append(@, res.wrote)]
           IN  IF res.err # ErrNil
               THEN /\ conns' = [conns EXCEPT ![c] = WriteFailed(cn)]
                    /\ UNCHANGED alive
               ELSE IF res.clientAddr = NilAddr
               THEN /\ conns' = [conns EXCEPT ![c] = [cn EXCEPT !.pc = "panic"]]
                    /\ alive' = FALSE
               ELSE /\ conns' = [conns EXCEPT ![c] =
                           [cn EXCEPT !.pc = "replied", !.caddr = res.clientAddr]]
                    /\ UNCHANGED alive
    /\ UNCHANGED <<config, codec, srv, relay, udp, closedCh, AssociatedUDP>>

\* TCPHandle for UDP ASSOCIATE, after r.UDP has returned: make(chan byte)
\* and s.AssociatedUDP.Store(caddr.String(), ch), up to io.Copy
UDPStoreAssoc(c) ==
    /\ alive
    /\ conns[c].pc = "replied"
    /\ conns' = [conns EXCEPT ![c] = [@ EXCEPT !.pc = "assoc", !.ch = NewCh]]
    /\ AssociatedUDP' = Store(AssociatedUDP, conns[c].caddr, NewCh)
    /\ UNCHANGED <<config, codec, srv, relay, udp, closedCh, alive>>

InitPair ==
    /\ NewServerWith(<<>>, <<>>, <<>>, PairConns, Workers)
    /\ LimitUDP = TRUE
    /\ UDPTimeout = 60
    /\ TCPTimeout = 0
    /\ srv = Serving

PairNext ==
    \/ \E c \in PairConns :
           \/ AcceptTCPOf(c, ServeIPs)
           \/ Admit(c)
           \/ NegotiateMethodsOf(c, ServeNegFrames)
           \/ GetRequestOf(c, PairRequestFrames)
           \/ UDPReply(c)
           \/ UDPStoreAssoc(c)
           \/ AssocEnd(c)
    \/ UDPReceiveFrom(ServeIPs, {PairEndpoint[2]}, ServePackets)
    \/ \E w \in Workers : HandleUDPTask(w)

SpecPair == InitPair /\ [][PairNext]_vars

(***************************************************************************)
(* The flow keys of two clients, with LimitUDP off: the client at port 5   *)
(* sends to "3x", port 53, and the client at port 53 to "x", port 53.      *)
(***************************************************************************)
InitKey ==
    /\ NewServer(<<>>, <<>>, <<>>)
    /\ LimitUDP = FALSE
    /\ UDPTimeout = 60
    /\ TCPTimeout = 0
    /\ srv = Serving

KeyNext ==
    \/ \E port \in KeyPorts : UDPReceiveFrom(FlowIPs, {port}, {FlowPacket(port)})
    \/ \E w \in Workers : HandleUDPTask(w) \/ UDPDial(w)
    \/ \E r \in FlowReaders : ReaderSelect(r) \/ ReaderRead(r) \/ ReaderReadError(r)

SpecKey == InitKey /\ [][KeyNext]_vars

\* the readers are readers there can be, and every socket that is open is
\* the socket of a reader
ReadersOK ==
    /\ readers \subseteq Readers
    /\ rcOpen \subseteq {r.ue.rc : r \in readers}

(***************************************************************************)
(* Properties of a TCP connection.                                         *)
(***************************************************************************)
Last(s) == s[Len(s)]
IsNegotiationReply(f) == Len(f) = 2 /\ f[1] = Ver
IsUserPassReply(f) == Len(f) = 2 /\ f[1] = UserPassVer
IsReply(f) == Len(f) >= 10 /\ f[1] = Ver
\* a frame that tells the client of a failure
IsErrorFrame(f) ==
    \/ IsNegotiationReply(f) /\ f[2] = MethodUnsupportAll
    \/ IsUserPassReply(f) /\ f[2] # UserPassStatusSuccess
    \/ IsReply(f) /\ f[2] # RepSuccess
\* the goroutine of the connection has got past Negotiate
PastNegotiate(cn) == cn.pc \in {"request", "handle", "relay", "assoc", "panic"}
                         \/ "Request" \in cn.rd \/ cn.handled
ProtocolErrors == {ErrVersion, ErrUserPassVersion, ErrBadRequest, ErrUnsupportCmd,
                   ErrUserPassAuth}

\* C1: when the NegotiationRequest does not list the server's method, the
\* server writes the NO_ACCEPTABLE reply and closes: that reply is all it
\* writes, it reads no UserPassRequest and no Request, and the handler is
\* not invoked.
C1_MethodRejection ==
    \A c \in Conns :
        conns[c].offered = "no" =>
            /\ conns[c].pc = "closed"
            /\ conns[c].out = <<NegotiationReplyBytes(MethodUnsupportAll)>>
            /\ conns[c].rd = {"NegotiationRequest"}
            /\ ~conns[c].handled

\* C2: on a server that requires USER_PASS a connection gets past Negotiate
\* (its Request is read, TCPHandle is invoked) only after a UserPassRequest
\* with the configured user name and password was received and the reply
\* 01 00 was written.
C2_AuthenticationGate ==
    \A c \in Conns :
        (Method = MethodUsernamePassword /\ PastNegotiate(conns[c])) =>
            /\ conns[c].creds = "match"
            /\ "UserPassRequest" \in conns[c].rd
            /\ \E i \in 1..Len(conns[c].out) :
                   conns[c].out[i] = UserPassNegotiationReplyBytes(UserPassStatusSuccess)
C2_Witness ==
    \E c \in Conns :
        /\ Method = MethodUsernamePassword
        /\ conns[c].handled
        /\ conns[c].creds = "match"

\* C3, as claimed: when the user name or the password of the UserPassRequest
\* differs from the configured one, the server writes 01 01 and nothing
\* after it, Negotiate returns ErrUserPassAuth, and the connection is closed
\* with no Request read.
C3_AuthenticationFailure_Claimed ==
    \A c \in Conns :
        conns[c].creds = "mismatch" =>
            /\ conns[c].pc = "closed"
            /\ Last(conns[c].out) = UserPassNegotiationReplyBytes(UserPassStatusFailure)
            /\ conns[c].err = ErrUserPassAuth
            /\ "Request" \notin conns[c].rd
            /\ ~conns[c].handled
\* C3, amended: as claimed, except that Negotiate returns the error of the
\* write when the write of the reply 01 01 fails.
C3_AuthenticationFailure ==
    \A c \in Conns :
        conns[c].creds = "mismatch" =>
            /\ conns[c].pc = "closed"
            /\ Last(conns[c].out) = UserPassNegotiationReplyBytes(UserPassStatusFailure)
            /\ Cardinality({i \in 1..Len(conns[c].out) : IsUserPassReply(conns[c].out[i])}) = 1
            /\ conns[c].err = IF conns[c].wfail THEN ErrWrite ELSE ErrUserPassAuth
            /\ "Request" \notin conns[c].rd
            /\ ~conns[c].handled
C3_Witness ==
    \E c \in Conns :
        /\ conns[c].creds = "mismatch"
        /\ conns[c].err = ErrUserPassAuth
        /\ conns[c].offered = "yes"

\* C4: when the NegotiationRequest lists the server's method, the server
\* writes exactly one negotiation reply on the connection, and it carries
\* that method.
C4_MethodAcceptance ==
    \A c \in Conns :
        conns[c].offered = "yes" =>
            /\ conns[c].out[1] = NegotiationReplyBytes(Method)
            /\ {i \in 1..Len(conns[c].out) : IsNegotiationReply(conns[c].out[i])} = {1}
C4_Witness ==
    \E c \in Conns :
        /\ conns[c].offered = "yes"
        /\ conns[c].pc = "closed"
        /\ Len(conns[c].out) >= 2

\* C5: the required method is USER_PASS exactly when the configured user
\* name and password are both non-empty, and NO_AUTH otherwise; with NO_AUTH
\* no connection goes through the username/password sub-negotiation.
C5_RequiredMethod ==
    /\ Method = (IF UserName # <<>> /\ Password # <<>>
                 THEN MethodUsernamePassword ELSE MethodNone)
    /\ Method = MethodNone =>
           \A c \in Conns :
               /\ conns[c].pc # "userpass"
               /\ "UserPassRequest" \notin conns[c].rd
               /\ \A i \in 1..Len(conns[c].out) : ~IsUserPassReply(conns[c].out[i])
C5_Witness ==
    \E c \in Conns :
        /\ (UserName = <<>>) # (Password = <<>>)
        /\ conns[c].handled

\* the allow-list denies ip: it has an address or a network, ip is none of
\* its addresses and lies in none of its networks
Denied(ip) ==
    /\ AllowedIPs # {} \/ AllowedCIDRs # <<>>
    /\ ip \notin AllowedIPs
    /\ \A n \in Range(AllowedCIDRs) : ~Contains(n, ip)

\* C6: on a connection whose remote IP the allow-list denies the server
\* writes nothing, reads nothing, does not invoke the handler, and closes it.
C6_TCPAdmission ==
    \A c \in Conns :
        (conns[c].pc # "free" /\ Denied(conns[c].ip)) =>
            /\ conns[c].pc \in {"accepted", "closed"}
            /\ conns[c].out = <<>>
            /\ conns[c].rd = {}
            /\ ~conns[c].handled
C6_Witness ==
    \E c \in Conns :
        /\ Denied(conns[c].ip)
        /\ conns[c].pc = "closed"

(***************************************************************************)
(* Properties of the allow-list, on the TCP accept path and on the UDP     *)
(* datagram path.                                                          *)
(***************************************************************************)
\* ip is one of the exact-IP entries of the configured list or lies inside
\* one of its CIDR entries
Listed(ip) ==
    \E i \in 1..Len(whiteList) :
        \/ whiteList[i].k = "ip" /\ whiteList[i].ip = ip
        \/ whiteList[i].k = "cidr"
               /\ MaskIP(ip, whiteList[i].bits) = MaskIP(whiteList[i].ip, whiteList[i].bits)
\* the connection c was admitted, was denied
TCPAdmitted(c) == conns[c].pc = "negotiate"
TCPDenied(c) == conns[c].pc = "closed" /\ conns[c].err = "denied"
\* the last datagram the worker w handled was admitted, was denied
UDPAdmitted(w) == workers[w].last.outcome \notin {"none", "denied"}
UDPDenied(w) == workers[w].last.outcome = "denied"

\* C7: with a configured list that has an entry (one that is not blank),
\* IsAllowed(ip) is true exactly for the IPs that equal an exact-IP entry or
\* lie inside a CIDR entry; the entries that are neither admit nothing.  So
\* are the connections and the datagrams admitted.
C7_AllowListSemantics ==
    (\E i \in 1..Len(whiteList) : whiteList[i].k # "blank") =>
        /\ \A ip \in IPs : IsAllowed(AllowedIPs, AllowedCIDRs, ip) <=> Listed(ip)
        /\ \A c \in Conns : /\ TCPAdmitted(c) => Listed(conns[c].ip)
                            /\ TCPDenied(c) => ~Listed(conns[c].ip)
        /\ \A w \in Workers : /\ UDPAdmitted(w) => Listed(workers[w].last.task.ip)
                              /\ UDPDenied(w) => ~Listed(workers[w].last.task.ip)

\* C8: with a configured list of no entries IsAllowed is true of every IP:
\* no connection and no datagram is denied.
C8_EmptyAllowList ==
    whiteList = <<>> =>
        /\ \A ip \in IPs : IsAllowed(AllowedIPs, AllowedCIDRs, ip)
        /\ \A c \in Conns : conns[c].pc \in {"free", "accepted", "negotiate"}
        /\ \A w \in Workers : ~UDPDenied(w)
C8_Witness ==
    /\ whiteList = <<>>
    /\ \E c \in Conns : TCPAdmitted(c)
    /\ \E w \in Workers : UDPAdmitted(w)

(***************************************************************************)
(* Properties of the server as a whole.                                    *)
(***************************************************************************)
\* C9: nothing a client sends on a connection stops the server process or
\* its accept loop.
C9_ErrorConfinement ==
    /\ alive
    /\ \A c \in Conns : conns[c].pc # "panic"

\* C10: a connection that the server closes because of a protocol error or
\* an authentication failure has, as the last thing written to it, a reply
\* that tells the client of the error.
C10_ReplyBeforeClose ==
    \A c \in Conns :
        (conns[c].pc = "closed" /\ conns[c].err \in ProtocolErrors) =>
            /\ conns[c].out # <<>>
            /\ IsErrorFrame(Last(conns[c].out))

(***************************************************************************)
(* Properties of GetRequest and of the CONNECT command.                    *)
(***************************************************************************)
\* the ATYP, address and port of an error reply to a request of ATYP atyp
ZeroBnd(atyp) ==
    IF atyp = ATYPIPv6 THEN <<ATYPIPv6>> \o Zeros(16) \o <<0, 0>>
    ELSE <<ATYPIPv4>> \o Zeros(4) \o <<0, 0>>
\* a Request was decoded on connection c
GotRequest(c) == conns[c].req # NoReq
\* the relay of connection c has started
RelayStarted(c) == relay[c].c2o # "none" \/ relay[c].o2c # "none"
\* bytes have been relayed on connection c
Relayed(c) ==
    \/ relay[c].rdC > 0 \/ relay[c].rdO > 0
    \/ relay[c].toO # <<>> \/ relay[c].toC # <<>>

\* C11: for a well-formed Request whose CMD is neither CONNECT nor UDP
\* ASSOCIATE the last thing the server writes is a Reply with REP
\* CMD_NOT_SUPPORTED, RSV 0, and a zero address and port of ATYP IPv4 for an
\* IPv4 or DOMAIN request and of ATYP IPv6 for an IPv6 request; the handler is
\* not invoked and the connection is closed.
C11_UnsupportedCommand ==
    \A c \in Conns :
        (GotRequest(c) /\ conns[c].req.Cmd \notin {CmdConnect, CmdUDP}) =>
            /\ conns[c].pc = "closed"
            /\ ~conns[c].handled
            /\ Last(conns[c].out)
                   = <<Ver, RepCommandNotSupported, 0>> \o ZeroBnd(conns[c].req.Atyp)
C11_Witness ==
    \E c \in Conns :
        /\ conns[c].req = [Cmd |-> CmdBind, Atyp |-> ATYPIPv6]
        /\ conns[c].err = ErrUnsupportCmd

\* C12, as claimed: when the dial of the target fails the server writes a
\* Reply with REP HOST_UNREACHABLE and a zero address and port (IPv4 form for
\* IPv4 and DOMAIN requests, IPv6 form for IPv6 requests), Connect returns
\* the dial error, no relay starts, and the connection is closed.
C12_DialFailure_Claimed ==
    \A c \in Conns :
        conns[c].dial = "fail" =>
            /\ conns[c].pc = "closed"
            /\ Last(conns[c].out)
                   = <<Ver, RepHostUnreachable, 0>> \o ZeroBnd(conns[c].req.Atyp)
            /\ conns[c].err = ErrDial
            /\ conns[c].rc = "none"
            /\ ~RelayStarted(c)
\* C12, amended: as claimed, except that Connect returns the error of the
\* write when the write of the reply fails.
C12_DialFailure ==
    \A c \in Conns :
        conns[c].dial = "fail" =>
            /\ conns[c].pc = "closed"
            /\ Last(conns[c].out)
                   = <<Ver, RepHostUnreachable, 0>> \o ZeroBnd(conns[c].req.Atyp)
            /\ conns[c].err = IF conns[c].wfail THEN ErrWrite ELSE ErrDial
            /\ conns[c].rc = "none"
            /\ ~RelayStarted(c)
C12_Witness ==
    \E c \in Conns :
        /\ conns[c].dial = "fail"
        /\ conns[c].req.Atyp = ATYPDomain
        /\ conns[c].err = ErrDial

\* the Reply that tells of the outbound socket with the local address la
SuccessReply(la) ==
    <<Ver, RepSuccess, 0, IF Len(la.addr) = 4 THEN ATYPIPv4 ELSE ATYPIPv6>>
        \o la.addr \o la.port

\* C13: after a successful dial the last thing written on the connection by
\* Connect is a Reply with REP SUCCESS and the local IP and port of the
\* outbound socket (ATYP IPv4 for a v4 address, IPv6 otherwise); the relay
\* starts, and bytes are relayed, only after that reply was written; if the
\* write of the reply fails the outbound socket is closed and no relay starts.
C13_ConnectSuccess ==
    \A c \in Conns :
        conns[c].dial = "ok" =>
            /\ Last(conns[c].out) = SuccessReply(conns[c].la)
            /\ conns[c].wfail =>
                   /\ conns[c].rc = "closed"
                   /\ conns[c].pc = "closed"
                   /\ ~RelayStarted(c)
                   /\ ~Relayed(c)
            /\ conns[c].pc = "relay" => conns[c].rc = "open"
C13_Witness ==
    \E c \in Conns :
        /\ conns[c].dial = "ok"
        /\ Len(conns[c].la.addr) = 16
        /\ relay[c].toC # <<>>
        /\ relay[c].toO # <<>>

\* C14: the sockets of a relay are closed only after both copies have
\* finished: when the connection is closed the copy from the origin to the
\* client has ended by itself, not by the closing of the sockets.
C14_RelayCompletion ==
    \A c \in Conns :
        (conns[c].pc = "closed" /\ RelayStarted(c)) =>
            /\ relay[c].c2o = "done"
            /\ relay[c].o2c = "done"
            /\ relay[c].whyO # "closed"

\* C15: when one of the two copies of a relay has ended, the connection is
\* closed (the client socket and the origin socket) sooner or later.
C15_RelayTeardown ==
    \A c \in Conns :
        (conns[c].pc = "relay" /\ (relay[c].c2o = "done" \/ relay[c].o2c = "done"))
            ~> (conns[c].pc # "relay")

\* s is a prefix of t
IsPrefix(s, t) == Len(s) <= Len(t) /\ s = SubSeq(t, 1, Len(s))

C17_IdleTimeout ==
    \A c \in Conns :
        /\ TCPTimeout = 0 => relay[c].dlC = "none" /\ relay[c].dlO = "none"
        /\ TCPTimeout > 0 =>
               /\ relay[c].c2o = "read" => relay[c].dlC = "fresh"
               /\ relay[c].o2c = "read" => relay[c].dlO = "fresh"
        /\ relay[c].whyC = "timeout" => TCPTimeout > 0 /\ relay[c].dlC = "fresh"
        /\ relay[c].whyO = "timeout" => TCPTimeout > 0 /\ relay[c].dlO = "fresh"
C17_Witness ==
    \E c \in Conns :
        /\ relay[c].whyC = "timeout"
        /\ relay[c].rdC = MaxData
        /\ relay[c].whyO = "timeout"

(***************************************************************************)
(* Properties of UDP ASSOCIATE.                                            *)
(***************************************************************************)
\* the remote address of the TCP connection c
RemoteAddr(c) == Endpoint(IPv4Bytes(conns[c].ip), RemotePort(c))

\* C18: while TCPHandle waits for the end of the control connection of a UDP
\* association, the client's UDP endpoint is the remote address of the
\* connection if DST.PORT is 0x0000 and DST.ADDR:DST.PORT otherwise (the
\* address a domain name resolves to, with DST.PORT), the last thing written
\* is a Reply with REP SUCCESS and the server's UDP address and port, and
\* its write succeeded.
C18_UDPAssociate ==
    \A c \in Conns :
        conns[c].pc = "assoc" =>
            /\ conns[c].r.Cmd = CmdUDP
            /\ IF conns[c].r.DstPort = <<0, 0>>
               THEN conns[c].caddr = RemoteAddr(c)
               ELSE /\ conns[c].caddr[2] = conns[c].r.DstPort
                    /\ conns[c].r.Atyp # ATYPDomain =>
                           conns[c].caddr[1] = conns[c].r.DstAddr
            /\ Last(conns[c].out)
                   = <<Ver, RepSuccess, 0, ServerAddr.atyp>>
                         \o ServerAddr.addr \o ServerAddr.port
            /\ ~conns[c].wfail
C18_Witness ==
    \E c \in Conns :
        /\ conns[c].pc = "assoc"
        /\ conns[c].r.DstPort # <<0, 0>>
        /\ conns[c].r.Atyp = ATYPIPv6
        /\ conns[c].caddr # RemoteAddr(c)

\* the connection c waits for the end of the control connection of its
\* association
Associated(c) == conns[c].pc = "assoc"

\* C19: the table of the associations holds the endpoints of the live
\* control connections only, and a channel whose control connection has
\* ended is closed: every entry of the table, and every channel a worker or
\* a reader holds that is not closed, is of a connection that TCPHandle
\* still waits on.
C19_AssociationRemoval ==
    /\ \A e \in AssociatedUDP :
           \E c \in Conns : Associated(c) /\ conns[c].caddr = e.key /\ conns[c].ch = e.ch
    /\ \A ch \in HeldCh(workers, readers) :
           ch \in closedCh \/ \E c \in Conns : Associated(c) /\ conns[c].ch = ch
C19_Witness ==
    \E c \in Conns, w \in Workers :
        /\ conns[c].pc = "closed"
        /\ conns[c].caddr # NilAddr
        /\ workers[w].addr = conns[c].caddr
        /\ workers[w].ch \in closedCh
        /\ AssociatedUDP = {}

\* the source endpoint of the task t
TaskSrc(t) == Endpoint(IPv4Bytes(t.ip), t.port)
\* a worker takes the task at the head of the queue in this step
Takes == udpWorkCh # <<>> /\ udpWorkCh' = Tail(udpWorkCh)
\* UDPHandle is invoked for the task t: handleUDPTask has let it through
Handled(t) ==
    /\ IsAllowed(AllowedIPs, AllowedCIDRs, t.ip)
    /\ NewDatagramFromBytes(t.pkt).err = ErrNil
    /\ NewDatagramFromBytes(t.pkt).d.Frag = 0

\* C20: with LimitUDP, when UDPHandle is invoked for a datagram whose source
\* has no entry in the table of the associations, it returns an error: the
\* worker does not go on to the dial, and the flow table, the cache of the
\* local addresses, the sockets and the readers are as they were.
C20_LimitUDPGate ==
    [][(/\ Takes
        /\ LimitUDP
        /\ Handled(Head(udpWorkCh))
        /\ Load(AssociatedUDP, TaskSrc(Head(udpWorkCh))) = {}) =>
           /\ \E w \in Workers :
                  /\ workers[w].pc = "idle"
                  /\ workers' = [workers EXCEPT ![w] =
                         [IdleWorker EXCEPT !.last = [task |-> Head(udpWorkCh),
                                                      outcome |-> "not associated"]]]
           /\ UNCHANGED <<UDPExchanges, UDPSrc, rcOpen, readers>>]_vars
C20_Witness ==
    \E w \in Workers, c \in Conns :
        /\ LimitUDP
        /\ workers[w].last.outcome = "not associated"
        /\ Associated(c)
        /\ conns[c].caddr # TaskSrc(workers[w].last.task)

(***************************************************************************)
(* Properties of the wire codec.                                           *)
(***************************************************************************)
\* the packet bb has the four bytes before the address, a known ATYP and,
\* for a domain, a length that is not 0
HeaderKnown(bb) ==
    /\ Len(bb) >= 4
    /\ bb[4] \in {ATYPIPv4, ATYPDomain, ATYPIPv6}
    /\ bb[4] = ATYPDomain => Len(bb) >= 5 /\ bb[5] # 0
\* the size of a datagram of the ATYP of bb with no data: 10 for IPv4, 22
\* for IPv6, 7 and the length of the name for a domain
MinSize(bb) ==
    IF bb[4] = ATYPIPv4 THEN 10
    ELSE IF bb[4] = ATYPIPv6 THEN 22
    ELSE 7 + bb[5]

\* C28, as claimed: NewDatagramFromBytes fails with ErrBadRequest for a
\* packet shorter than the minimum size of its ATYP, for an unknown ATYP and
\* for a domain of length 0, and succeeds for every packet of at least the
\* minimum size, the data being the bytes after the port.
C28_DatagramMinimum_Claimed ==
    codec.op = "NewDatagramFromBytes" =>
        IF HeaderKnown(codec.in) /\ Len(codec.in) >= MinSize(codec.in)
        THEN /\ codec.err = ErrNil
             /\ codec.d.Data = SubSeq(codec.in, MinSize(codec.in) + 1, Len(codec.in))
        ELSE codec.err = ErrBadRequest
\* C28, amended: NewDatagramFromBytes fails with ErrBadRequest for a packet
\* not longer than the minimum size of its ATYP (a packet of exactly that
\* size, with no data, fails too), for an unknown ATYP and for a domain of
\* length 0, and succeeds for every longer packet, the data being the bytes
\* after the port.
C28_DatagramMinimum ==
    codec.op = "NewDatagramFromBytes" =>
        IF HeaderKnown(codec.in) /\ Len(codec.in) > MinSize(codec.in)
        THEN /\ codec.err = ErrNil
             /\ codec.d.Data = SubSeq(codec.in, MinSize(codec.in) + 1, Len(codec.in))
             /\ codec.d.Data # <<>>
        ELSE codec.err = ErrBadRequest /\ codec.d = NoDatagram
C28_Witness ==
    /\ codec.op = "NewDatagramFromBytes"
    /\ codec.err = ErrNil
    /\ codec.d.Atyp = ATYPDomain
    /\ Len(codec.in) = MinSize(codec.in) + 1

\* C29, as claimed: for every datagram v built by NewDatagram,
\* NewDatagramFromBytes(v.Bytes()) succeeds and yields v; and for every
\* packet b that decodes to v, v.Bytes() is b.
C29_DatagramRoundTrip_Claimed ==
    /\ codec.op = "round trip" => codec.err2 = ErrNil /\ codec.d2 = codec.d
    /\ codec.op = "Bytes of decoded" => codec.bytes = codec.in
\* C29, amended: for every datagram v built by NewDatagram with data that
\* is not empty, NewDatagramFromBytes(v.Bytes()) succeeds and yields v (the
\* same RSV, FRAG, ATYP, DST.ADDR, DST.PORT and DATA); with empty data it
\* fails with ErrBadRequest; and for every packet b that decodes to v,
\* v.Bytes() is b.
C29_DatagramRoundTrip ==
    /\ codec.op = "round trip" =>
           IF codec.d.Data # <<>>
           THEN codec.err2 = ErrNil /\ codec.d2 = codec.d
           ELSE codec.err2 = ErrBadRequest
    /\ codec.op = "Bytes of decoded" => codec.bytes = codec.in
C29_Witness ==
    /\ codec.op = "round trip"
    /\ codec.d.Atyp = ATYPDomain
    /\ Len(codec.d.DstAddr) = 3
    /\ Len(codec.d.Data) = MaxPayload
    /\ codec.d2 = codec.d

\* the length of the frame at the head of the stream s, whose ATYP is known
FrameSize(s) ==
    IF s[4] = ATYPIPv4 THEN 10
    ELSE IF s[4] = ATYPIPv6 THEN 22
    ELSE 7 + s[5]

\* C30: NewRequestFrom returns ErrVersion when VER is not 5, whatever ATYP
\* is; ErrBadRequest when ATYP is unknown or a domain has length 0; the
\* error of the read when the stream ends before the frame; and otherwise
\* the request, with CMD, RSV (any value) and ATYP as sent, DST.ADDR of 4 or
\* 16 bytes or the name with its length before it, DST.PORT, having consumed
\* the bytes of the frame and no more.
C30_RequestDecoding ==
    codec.op = "NewRequestFrom" =>
        LET s == codec.in IN
        IF Len(s) < 4 THEN codec.err = ErrRead
        ELSE IF s[1] # Ver THEN codec.err = ErrVersion
        ELSE IF s[4] \notin {ATYPIPv4, ATYPDomain, ATYPIPv6} THEN codec.err = ErrBadRequest
        ELSE IF s[4] = ATYPDomain /\ Len(s) < 5 THEN codec.err = ErrRead
        ELSE IF s[4] = ATYPDomain /\ s[5] = 0 THEN codec.err = ErrBadRequest
        ELSE IF Len(s) < FrameSize(s) THEN codec.err = ErrRead
        ELSE /\ codec.err = ErrNil
             /\ codec.n = FrameSize(s)
             /\ codec.r.Cmd = s[2] /\ codec.r.Rsv = s[3] /\ codec.r.Atyp = s[4]
             /\ codec.r.DstAddr = SubSeq(s, 5, FrameSize(s) - 2)
             /\ Len(codec.r.DstAddr) =
                    IF s[4] = ATYPIPv4 THEN 4 ELSE IF s[4] = ATYPIPv6 THEN 16 ELSE 1 + s[5]
             /\ codec.r.DstPort = SubSeq(s, FrameSize(s) - 1, FrameSize(s))
C30_Witness ==
    /\ codec.op = "NewRequestFrom"
    /\ codec.err = ErrNil
    /\ codec.r.Rsv # 0
    /\ codec.r.Atyp = ATYPDomain
    /\ codec.n < Len(codec.in)

(***************************************************************************)
(* Properties of the UDP relay, of ListenAndServe and of Shutdown.         *)
(***************************************************************************)
\* the reader of the outbound socket i holds an association channel that is
\* closed
Cancelled(i) == \E r \in readers : r.ue.rc = i /\ r.ch # 0 /\ r.ch \in closedCh
\* the reader of the outbound socket i has returned: the socket is closed and
\* no flow refers to it
ReaderGone(i) ==
    /\ i \notin rcOpen
    /\ \A r \in readers : r.ue.rc # i
    /\ \A e \in UDPExchanges : e.ue.rc # i

\* C21: with LimitUDP, once the channel of an association is closed, every
\* upstream reader that holds it eventually returns, closing its outbound
\* socket and deleting its flow, whatever UDPTimeout is (0 too) and whether
\* or not the origin sends another datagram.
C21_CancellationLiveness ==
    \A i \in 1..MaxReaders : Cancelled(i) ~> ReaderGone(i)

\* Shutdown was called
ShutdownCalled == srv.shutdown # "no"
\* the listener, the UDP socket and the work channel are closed, the workers
\* have left their loops and ListenAndServe has returned
Stopped ==
    /\ srv.l = "closed"
    /\ srv.UDPConn = "closed"
    /\ srv.chClosed
    /\ \A w \in Workers : workers[w].pc = "exit"
    /\ srv.phase = "returned"

\* C25: after Shutdown the TCP listener and the UDP socket are closed, the
\* work channel is closed, the workers eventually drain the channel and
\* leave their loops, and the call of ListenAndServe returns.
C25_ShutdownStops == ShutdownCalled ~> Stopped

\* C26: when Shutdown has returned, the flow table holds no UDPExchange,
\* every outbound UDP socket is closed and every upstream reader has
\* returned, whatever UDPTimeout is.
C26_ShutdownReleasesFlows ==
    srv.shutdown = "returned" =>
        UDPExchanges = {} /\ rcOpen = {} /\ readers = {}

\* the loop that is not loop is stopped: the listener is closed, or the UDP
\* socket and the work channel are closed and the workers have left their
\* loops
OtherStopped(loop) ==
    IF loop = "udp" THEN srv.l = "closed"
    ELSE /\ srv.UDPConn = "closed"
         /\ srv.chClosed
         /\ \A w \in Workers : workers[w].pc = "exit"

\* C27: when one of the two loops returns an error, the other is stopped and
\* ListenAndServe returns that error; and when a socket cannot be bound
\* ListenAndServe returns the error and the TCP listener is not open.
C27_FatalErrorPropagation ==
    /\ [](srv.phase = "returned" /\ srv.err = ErrListen => srv.l # "open")
    /\ \A loop \in {"tcp", "udp"} :
           (srv.first = loop) ~>
               (srv.phase = "returned" /\ srv.err = LoopErr(loop) /\ OtherStopped(loop))

\* the buffers that are in use: those of the queued tasks, of the workers
\* inside handleUDPTask and of the readers
BuffersHeld ==
    Len(udpWorkCh) + Cardinality({w \in Workers : workers[w].pc = "dial"})
        + Cardinality(readers)

\* C22: the work channel never holds more than its capacity; the ingress
\* loop does not wait for room: with the channel full it still takes the
\* next packet, which is dropped, its buffer going back to the pool (every
\* buffer that is in use is that of a queued task, of a worker or of a
\* reader), and the loop goes on.
C22_BoundedIngress ==
    /\ Len(udpWorkCh) <= MaxQueue
    /\ udpBufPool = BuffersHeld
    /\ (alive /\ srv.udp = "running" /\ srv.UDPConn = "open") => ENABLED UDPReceive
C22_Witness ==
    /\ Len(udpWorkCh) = MaxQueue
    /\ \A w \in Workers : workers[w].pc = "dial"
    /\ alive

\* C23: a datagram from a source IP that the allow-list denies is dropped
\* before it is decoded: UDPHandle is not invoked (the worker is idle again,
\* the task denied), no origin is dialed and no flow made, no reader is
\* there to send anything back, and the buffer goes back to the pool.
C23_UDPAdmission ==
    [][(Takes /\ Denied(Head(udpWorkCh).ip)) =>
           /\ \E w \in Workers :
                  /\ workers[w].pc = "idle"
                  /\ workers' = [workers EXCEPT ![w] =
                         [IdleWorker EXCEPT !.last = [task |-> Head(udpWorkCh),
                                                      outcome |-> "denied"]]]
           /\ udpBufPool' = udpBufPool - 1
           /\ UNCHANGED <<UDPExchanges, UDPSrc, rcOpen, readers>>]_vars
C23_Witness ==
    \E w \in Workers :
        /\ workers[w].last.outcome = "denied"
        /\ NewDatagramFromBytes(workers[w].last.task.pkt).err = ErrNil
        /\ NewDatagramFromBytes(workers[w].last.task.pkt).d.Frag = 0
        /\ udpBufPool = Len(udpWorkCh)

\* the outcomes of a task for which UDPHandle was not invoked
NotInvoked == {"denied", "bad datagram", "fragment"}
\* the worker w, idle, takes the task at the head of the queue in this step
\* and no other worker does anything
TakenBy(w) ==
    /\ workers[w].pc = "idle"
    /\ workers'[w].last.task = Head(udpWorkCh)
    /\ workers'[w].last.outcome # "none"
    /\ \A v \in Workers \ {w} : workers'[v] = workers[v]

\* C24: each queued datagram is taken by one worker, once; UDPHandle is
\* invoked for it if its source is allowed, it decodes and its FRAG is 0,
\* and for no other; a datagram whose FRAG is not 0 is dropped, with no
\* flow made and no socket opened.
C24_UDPDispatch ==
    [][Takes =>
           \E w \in Workers :
               /\ TakenBy(w)
               /\ Handled(Head(udpWorkCh)) <=> workers'[w].last.outcome \notin NotInvoked
               /\ (/\ IsAllowed(AllowedIPs, AllowedCIDRs, Head(udpWorkCh).ip)
                   /\ NewDatagramFromBytes(Head(udpWorkCh).pkt).err = ErrNil
                   /\ NewDatagramFromBytes(Head(udpWorkCh).pkt).d.Frag # 0) =>
                      /\ workers'[w].pc = "idle"
                      /\ workers'[w].last.outcome = "fragment"
                      /\ UNCHANGED <<UDPExchanges, UDPSrc, rcOpen, readers>>]_vars
C24_Witness ==
    \E w \in Workers :
        /\ workers[w].last.outcome = "fragment"
        /\ whiteList # <<>>
        /\ UDPExchanges # {}


(***************************************************************************)
(* Properties of the flows under several workers.                          *)
(***************************************************************************)
\* the flow key of the reader r
ReaderKey(r) == FlowKey(r.ue.ClientAddr, r.dst)
\* the readers that run: they have not returned from their loop
Running(r) == r \in readers /\ r.pc \in {"select", "read"}

\* C31: first-wins flow creation.  For every flow key there is at most one
\* exchange at a time: two readers that run and whose sockets are open are
\* never readers of the same key, and every reader that runs is the reader
\* of the exchange the flow table has for its key.
C31_FirstWins ==
    \A r1 \in readers :
        Running(r1) =>
            /\ [key |-> ReaderKey(r1), ue |-> r1.ue] \in UDPExchanges
            /\ \A r2 \in readers :
                   (Running(r2) /\ ReaderKey(r2) = ReaderKey(r1)) => r2 = r1

\* C32: atomic flow removal.  In every state each exchange in the flow table
\* has an origin socket that is open, so that a worker that finds an
\* exchange never writes to a socket its reader has closed.
C32_AtomicRemoval == \A e \in UDPExchanges : e.ue.rc \in rcOpen

\* the flow key of the task t
TaskKey(t) == FlowKey(TaskSrc(t), DatagramAddress(NewDatagramFromBytes(t.pkt).d))

Storing(k) ==
    {w \in DOMAIN workers :
        /\ workers[w].pc = "dialed"
        /\ FlowKey(workers[w].addr, DatagramAddress(workers[w].d)) = k}

\* C34: the cache of the local addresses.  Whenever no worker is between
\* its dial for a key and the statement that follows it, the entry of
\* UDPSrc for the key is the local address of the origin socket that was
\* dialed last for that key.
C34_LocalAddressCache ==
    \A d \in srv.dialed : Storing(d.key) = {} => Load(UDPSrc, d.key) = {d}

\* the buffers of the tasks that have not ended: those of the queued
\* tasks, of the workers inside handleUDPTask and of the readers that have
\* not returned
TaskBuffers ==
    Len(udpWorkCh)
        + Cardinality({w \in DOMAIN workers : workers[w].pc \notin {"idle", "exit"}})
        + Cardinality({r \in readers : r.pc \in {"select", "read"}})

\* C35: no buffer leak.  The buffers that are out of the pool are those of
\* the tasks that have not ended, each counted once; with the queue empty,
\* no worker inside handleUDPTask and no reader left, no buffer is out of
\* the pool.
C35_NoBufferLeak ==
    /\ udpBufPool = TaskBuffers
    /\ TaskBuffers = 0 => udpBufPool = 0

\* C36: closed-channel safety.  The ingress loop never sends on a work
\* channel that is closed: its goroutine never panics.
C36_ClosedChannelSafety == srv.udp # "panic"

\* C37: the flow key is injective.  Datagrams with different pairs of
\* source endpoint and destination have different keys: a datagram that a
\* worker has sent on the socket of a flow has the source and the
\* destination of the datagram that created the flow, so that its payload
\* went to its own destination and the replies go to its own client.
C37_FlowKeyInjective ==
    \A w \in DOMAIN workers : \A r \in readers :
        LET t == workers[w].last.task
        IN  (/\ workers[w].pc = "idle"
             /\ workers[w].last.outcome = ErrNil
             /\ TaskKey(t) = ReaderKey(r)) =>
                /\ TaskSrc(t) = r.ue.ClientAddr
                /\ DatagramAddress(NewDatagramFromBytes(t.pkt).d) = r.dst

(***************************************************************************)
(* Properties of the UDP associations.                                     *)
(***************************************************************************)
\* C38: the result of Request.UDP.  It never returns a nil client address
\* with a nil error: a connection on which it has answered a UDP ASSOCIATE
\* with HOST_UNREACHABLE has been closed by the server with an error, and
\* TCPHandle has gone no further with it.
C38_RequestUDPResult ==
    \A c \in DOMAIN conns :
        (/\ conns[c].r.Cmd = CmdUDP
         /\ conns[c].out # <<>>
         /\ Last(conns[c].out) = ReplyBytes(ErrorReply(RepHostUnreachable, conns[c].r))) =>
            /\ conns[c].pc = "closed"
            /\ conns[c].err # ErrNil

\* C39: an association persists.  While TCPHandle waits for the end of a
\* control connection that has made a UDP association, the client's
\* endpoint is in the table of the associations with a channel that is not
\* closed, whatever the other control connections do.
C39_AssociationPersistence ==
    \A c \in DOMAIN conns :
        conns[c].pc = "assoc" =>
            \E e \in AssociatedUDP : e.key = conns[c].caddr /\ e.ch \notin closedCh

\* C40: the association is visible before the reply.  With LimitUDP, in
\* every state in which the success reply of a UDP ASSOCIATE has been
\* written and TCPHandle has not yet reached io.Copy, the client's endpoint
\* is in the table of the associations.
C40_VisibleBeforeReply ==
    \A c \in DOMAIN conns :
        (LimitUDP /\ conns[c].pc = "replied") =>
            Load(AssociatedUDP, conns[c].caddr) # {}

====
